---- MODULE Spec2Model ----
(***************************************************************************)
(* Task lifecycle and response normalisation of the Web3 agent server:     *)
(* AgentTaskManager (task_manager.py) driving Web3Agent (agent.py).        *)
(*                                                                         *)
(* Text is modelled as a sequence of symbols.  A symbol is one character,  *)
(* except that a few words that are never split by the code are kept as    *)
(* one symbol: "M" stands for the word MISSING_INFO, so the sentinel       *)
(* "MISSING_INFO:" is the two symbols <<"M", ":">>.                        *)
(***************************************************************************)
EXTENDS Integers, Sequences, FiniteSets, TLC

----------------------------------------------------------------------------
(* Bounds of the model *)

MaxStrLen == 4
MaxCalls == 3
MaxKeys == 2

----------------------------------------------------------------------------
(* Program constants *)

BLOCKCHAIN_TIMEOUT == 45

SUPPORTED_CONTENT_TYPES == {"text", "text/plain"}

Sentinel == <<"M", ":">>

----------------------------------------------------------------------------
(* Text helpers: Python's str.startswith and the `in` substring test *)

StartsWith(s, c) == Len(s) >= 1 /\ s[1] = c

IsPrefixAt(s, i, p) ==
    /\ i + Len(p) - 1 <= Len(s)
    /\ \A k \in 1..Len(p) : s[i + k - 1] = p[k]

RECURSIVE FindFrom(_, _, _)
FindFrom(s, i, p) ==
    IF i + Len(p) - 1 > Len(s) THEN FALSE
    ELSE IF IsPrefixAt(s, i, p) THEN TRUE
    ELSE FindFrom(s, i + 1, p)

Contains(s, p) == FindFrom(s, 1, p)

RECURSIVE Join(_, _)
Join(parts, sep) ==
    IF Len(parts) = 0 THEN <<>>
    ELSE IF Len(parts) = 1 THEN parts[1]
    ELSE parts[1] \o sep \o Join(Tail(parts), sep)

----------------------------------------------------------------------------
(* JSON values as Python holds them after json.loads: every value is a     *)
(* record of the same shape so that any two values can be compared.        *)

JNull == [t |-> "null", s |-> <<>>, keys |-> <<>>, kids |-> <<>>]
JStr(s) == [t |-> "str", s |-> s, keys |-> <<>>, kids |-> <<>>]
JNum(s) == [t |-> "num", s |-> s, keys |-> <<>>, kids |-> <<>>]
JArr(kids) == [t |-> "arr", s |-> <<>>, keys |-> <<>>, kids |-> kids]
JObj(keys, kids) == [t |-> "obj", s |-> <<>>, keys |-> keys, kids |-> kids]

ParseFail == [ok |-> FALSE, v |-> JNull, pos |-> 0]
ParseOk(v, pos) == [ok |-> TRUE, v |-> v, pos |-> pos]

RECURSIVE SkipWs(_, _)
SkipWs(s, i) ==
    IF i <= Len(s) /\ s[i] = " " THEN SkipWs(s, i + 1) ELSE i

\* the body of a JSON string literal, from the symbol after the opening quote
RECURSIVE ScanStr(_, _, _)
ScanStr(s, j, acc) ==
    IF j > Len(s) THEN ParseFail
    ELSE IF s[j] = "\"" THEN ParseOk(JStr(acc), j + 1)
    ELSE IF s[j] = "\\" THEN
        IF j + 1 <= Len(s) /\ s[j + 1] \in {"\"", "\\"}
        THEN ScanStr(s, j + 2, Append(acc, s[j + 1]))
        ELSE ParseFail
    ELSE ScanStr(s, j + 1, Append(acc, s[j]))

RECURSIVE ScanNum(_, _, _)
ScanNum(s, j, acc) ==
    IF j <= Len(s) /\ s[j] = "1" THEN ScanNum(s, j + 1, Append(acc, s[j]))
    ELSE ParseOk(JNum(acc), j)

\* a repeated key keeps its first position and takes the last value
RECURSIVE KeyIndex(_, _, _)
KeyIndex(keys, k, i) ==
    IF i > Len(keys) THEN 0
    ELSE IF keys[i] = k THEN i
    ELSE KeyIndex(keys, k, i + 1)

ObjPut(o, k, v) ==
    LET i == KeyIndex(o.keys, k, 1) IN
    IF i = 0 THEN JObj(Append(o.keys, k), Append(o.kids, v))
    ELSE JObj(o.keys, [o.kids EXCEPT ![i] = v])

RECURSIVE ParseValue(_, _)
RECURSIVE ArrElems(_, _, _)
RECURSIVE ObjMembers(_, _, _)

ParseValue(s, i) ==
    IF i > Len(s) THEN ParseFail
    ELSE IF s[i] = "\"" THEN ScanStr(s, i + 1, <<>>)
    ELSE IF s[i] = "1" THEN ScanNum(s, i, <<>>)
    ELSE IF s[i] = "null" THEN ParseOk(JNull, i + 1)
    ELSE IF s[i] = "[" THEN
        LET j == SkipWs(s, i + 1) IN
        IF j <= Len(s) /\ s[j] = "]" THEN ParseOk(JArr(<<>>), j + 1)
        ELSE ArrElems(s, j, <<>>)
    ELSE IF s[i] = "{" THEN
        LET j == SkipWs(s, i + 1) IN
        IF j <= Len(s) /\ s[j] = "}" THEN ParseOk(JObj(<<>>, <<>>), j + 1)
        ELSE ObjMembers(s, j, JObj(<<>>, <<>>))
    ELSE ParseFail

ArrElems(s, j, acc) ==
    LET r == ParseValue(s, j) IN
    IF ~r.ok THEN ParseFail
    ELSE LET k == SkipWs(s, r.pos) IN
         IF k > Len(s) THEN ParseFail
         ELSE IF s[k] = "]" THEN ParseOk(JArr(Append(acc, r.v)), k + 1)
         ELSE IF s[k] = "," THEN ArrElems(s, SkipWs(s, k + 1), Append(acc, r.v))
         ELSE ParseFail

ObjMembers(s, j, acc) ==
    IF j > Len(s) \/ s[j] # "\"" THEN ParseFail
    ELSE LET key == ScanStr(s, j + 1, <<>>) IN
         IF ~key.ok THEN ParseFail
         ELSE LET c == SkipWs(s, key.pos) IN
              IF c > Len(s) \/ s[c] # ":" THEN ParseFail
              ELSE LET r == ParseValue(s, SkipWs(s, c + 1)) IN
                   IF ~r.ok THEN ParseFail
                   ELSE LET k == SkipWs(s, r.pos)
                            o == ObjPut(acc, key.v.s, r.v) IN
                        IF k > Len(s) THEN ParseFail
                        ELSE IF s[k] = "}" THEN ParseOk(o, k + 1)
                        ELSE IF s[k] = "," THEN ObjMembers(s, SkipWs(s, k + 1), o)
                        ELSE ParseFail

\* json.loads(text): a value, or JSONDecodeError (ok = FALSE)
json_loads(s) ==
    LET r == ParseValue(s, SkipWs(s, 1)) IN
    IF r.ok /\ SkipWs(s, r.pos) = Len(s) + 1 THEN r ELSE ParseFail

RECURSIVE Escape(_)
Escape(s) ==
    IF Len(s) = 0 THEN <<>>
    ELSE (IF s[1] \in {"\"", "\\"} THEN <<"\\", s[1]>> ELSE <<s[1]>>)
         \o Escape(Tail(s))

\* json.dumps(value) with the default separators ", " and ": "
RECURSIVE json_dumps(_)
json_dumps(v) ==
    IF v.t = "str" THEN <<"\"">> \o Escape(v.s) \o <<"\"">>
    ELSE IF v.t = "num" THEN v.s
    ELSE IF v.t = "null" THEN <<"null">>
    ELSE IF v.t = "arr" THEN
        <<"[">> \o Join([i \in 1..Len(v.kids) |-> json_dumps(v.kids[i])],
                       <<",", " ">>) \o <<"]">>
    ELSE
        <<"{">> \o Join([i \in 1..Len(v.kids) |->
                           <<"\"">> \o Escape(v.keys[i]) \o <<"\"", ":", " ">>
                           \o json_dumps(v.kids[i])],
                       <<",", " ">>) \o <<"}">>

\* repr() of a value held in a Python container
RECURSIVE py_repr(_)
py_repr(v) ==
    IF v.t = "str" THEN <<"'">> \o v.s \o <<"'">>
    ELSE IF v.t = "num" THEN v.s
    ELSE IF v.t = "null" THEN <<"None">>
    ELSE IF v.t = "arr" THEN
        <<"[">> \o Join([i \in 1..Len(v.kids) |-> py_repr(v.kids[i])],
                       <<",", " ">>) \o <<"]">>
    ELSE
        <<"{">> \o Join([i \in 1..Len(v.kids) |->
                           <<"'">> \o v.keys[i] \o <<"'", ":", " ">>
                           \o py_repr(v.kids[i])],
                       <<",", " ">>) \o <<"}">>

----------------------------------------------------------------------------
(* Values the agent wrapper can hand back to the Task Manager *)

RawStr(s) == [py |-> "str", s |-> s, v |-> JNull]
RawObj(v) == [py |-> "obj", s |-> <<>>, v |-> v]
RawNone == [py |-> "None", s |-> <<>>, v |-> JNull]
\* a value that is neither a string nor a container, written by its digits
RawInt(s) == [py |-> "int", s |-> s, v |-> JNull]

\* str(result)
py_str(result) ==
    IF result.py \in {"str", "int"} THEN result.s
    ELSE IF result.py = "obj" THEN py_repr(result.v)
    ELSE <<"None">>

TextPart(s) == [type |-> "text", text |-> s, data |-> JNull]
DataPart(v) == [type |-> "data", text |-> <<>>, data |-> v]

\* json.loads(json.dumps(result, default=custom_serializer)); the default
\* hook is never consulted for strings, dicts and lists of JSON values
Reserialize(v) == json_loads(json_dumps(v))

\* Classify without the direct json.loads of a string result
ClassifyNoDirectParse(result) ==
    IF result.py = "obj" \/ StartsWith(result.s, "{") \/ StartsWith(result.s, "[")
    THEN LET json_result ==
                 IF result.py = "str" THEN Reserialize(JStr(result.s))
                 ELSE Reserialize(result.v)
         IN  IF json_result.ok THEN <<DataPart(json_result.v)>>
             ELSE <<TextPart(py_str(result))>>
    ELSE <<TextPart(result.s)>>

\* result.startswith on a value that is no dict, no list and has no such
\* attribute raises AttributeError, which the classifier's
\* except (json.JSONDecodeError, TypeError) does not catch
ClassifyRaises(result) == result.py = "int"

AttributeErrorMsg == <<"'int' object has no attribute 'startswith'">>

\* the "Determine if result is JSON or text" block of _invoke
Classify(result) ==
    IF result.py = "obj" \/ StartsWith(result.s, "{") \/ StartsWith(result.s, "[")
    THEN LET json_result ==
                 IF result.py = "str"
                 THEN LET direct == json_loads(result.s) IN
                      IF direct.ok THEN direct ELSE Reserialize(JStr(result.s))
                 ELSE Reserialize(result.v)
         IN  IF json_result.ok THEN <<DataPart(json_result.v)>>
             ELSE <<TextPart(py_str(result))>>
    ELSE <<TextPart(result.s)>>

\* TaskStateOf looking for the sentinel at the start of the text only
TaskStateOfPrefix(result) ==
    IF IsPrefixAt(py_str(result), 1, Sentinel) THEN "input-required"
    ELSE "completed"

\* a rule that reports the absence of the sentinel as a failure
TaskStateOfFailed(result) ==
    IF Contains(py_str(result), Sentinel) THEN "input-required" ELSE "failed"

\* the "Determine task state based on content" expression of _invoke
TaskStateOf(result) ==
    IF Contains(py_str(result), Sentinel) THEN "input-required" ELSE "completed"

\* the conversion of a tool response that Web3Agent.invoke returns
AgentSerialize(final_response) ==
    IF final_response.py = "obj" THEN RawStr(json_dumps(final_response.v))
    ELSE RawStr(py_str(final_response))

----------------------------------------------------------------------------
(* Requests, tasks and responses *)

Reqs == {1, 2}
TaskIds == {"t1", "t2"}
ModeSets == {{"text"}, {"image/png"}}
PartKinds == {"text", "file"}

NoStatus == [state |-> "none", parts |-> <<>>]
NoTask == [present |-> FALSE, status |-> NoStatus,
           artifacts |-> [isNone |-> TRUE, list |-> <<>>]]

NoRequest == [task_id |-> "t1", modes |-> {}, part |-> "text", streaming |-> FALSE]
\* result, parts, task_state, error: the variables of _invoke; timedOut,
\* existed, before and appended record what the handler met and did on its
\* way (appended: how many artifacts it added to its task)
NoLocals == [result |-> RawNone, parts |-> <<>>, task_state |-> "none",
             error |-> <<>>, timedOut |-> FALSE, existed |-> FALSE,
             before |-> <<>>, appended |-> 0]
NoResponse == [kind |-> "none", task |-> NoTask, msg |-> <<>>]

TaskResponse(task) == [kind |-> "task", task |-> task, msg |-> <<>>]
ErrorResponse(name) == [kind |-> "error", task |-> NoTask, msg |-> <<name>>]
Raised(msg) == [kind |-> "raised", task |-> NoTask, msg |-> msg]

TimeoutMsg ==
    <<"Timeout waiting for response from blockchain after ",
      ToString(BLOCKCHAIN_TIMEOUT), " seconds">>
ErrorPrefix == <<"Error invoking agent: ">>
NoResponseMsg == <<"No response received from agent">>
AgentFailureMsg == <<"Agent not initialized. Call initialize() first.">>
OnlyTextMsg == <<"Only text parts are supported">>

\* raw values the agent produces in the concurrent specification
SmallResults == {RawStr(<<"M", ":">>), RawStr(<<"{", "}">>)}

----------------------------------------------------------------------------
(* The schema normalizer of utils.py, on schema trees *)

MaxDepth == 2
MaxRuns == 2

\* obj['type']: absent, a string, or a list of strings
NoType == [there |-> FALSE, list |-> FALSE, names |-> <<>>]
TypeName(name) == [there |-> TRUE, list |-> FALSE, names |-> <<name>>]
TypeList(names) == [there |-> TRUE, list |-> TRUE, names |-> names]

\* obj['enum']: absent or a list of members, each a string or a number
NoEnum == [there |-> FALSE, vals |-> <<>>]
\* a member of an enum list: a string, a number written by its digits, or a
\* dict; str() of a dict is the string that shows that dict (str TRUE, the
\* dict kept in obj)
EnumStr(s) == [str |-> TRUE, s |-> s, obj |-> <<>>]
EnumNum(s) == [str |-> FALSE, s |-> s, obj |-> <<>>]
EnumDict(d) == [str |-> FALSE, s |-> <<>>, obj |-> <<d>>]
Enum(vals) == [there |-> TRUE, vals |-> vals]

\* a schema dict: items is <<>> when the key is absent, else the one nested
\* dict; properties holds the property schemas, anyOf a list of schemas
Schema(type, items, properties, anyOf, enum) ==
    [type |-> type, items |-> items, properties |-> properties,
     anyOf |-> anyOf, enum |-> enum]

\* {'type': 'string'}
DefaultItems == Schema(TypeName("string"), <<>>, <<>>, <<>>, NoEnum)
\* {}
EmptySchema == Schema(NoType, <<>>, <<>>, <<>>, NoEnum)

\* SchemaFixOptions: the fields the normalizer reads
SchemaFixOptions(convert_type_arrays_to, aggressive) ==
    [convert_type_arrays_to |-> convert_type_arrays_to, aggressive |-> aggressive]
DefaultOptions == SchemaFixOptions("string", TRUE)

IsArrayWithoutItems(obj) ==
    obj.type = TypeName("array") /\ obj.items = <<>>

\* fix_openai_validation_errors: the property schemas are visited by the
\* loop over obj['properties'] and again through the loop over obj.items()
RECURSIVE fix_openai_validation_errors(_)
fix_openai_validation_errors(obj) ==
    LET a == IF IsArrayWithoutItems(obj)
             THEN [obj EXCEPT !.items = <<DefaultItems>>] ELSE obj
    IN  [a EXCEPT
            !.items = [i \in 1..Len(a.items) |->
                          fix_openai_validation_errors(a.items[i])],
            !.properties = [i \in 1..Len(a.properties) |->
                          fix_openai_validation_errors(
                              fix_openai_validation_errors(a.properties[i]))],
            !.anyOf = [i \in 1..Len(a.anyOf) |->
                          fix_openai_validation_errors(a.anyOf[i])],
            !.enum.vals = [i \in 1..Len(a.enum.vals) |->
                          IF a.enum.vals[i].str THEN a.enum.vals[i]
                          ELSE [a.enum.vals[i] EXCEPT !.obj =
                                   [j \in 1..Len(@) |->
                                       fix_openai_validation_errors(@[j])]]]]

\* str(val) for the members that are not strings
StringifyEnum(enum) ==
    [enum EXCEPT !.vals = [i \in 1..Len(enum.vals) |->
                              [enum.vals[i] EXCEPT !.str = TRUE]]]

\* fix_schema_types_recursive on a dict; the dict under 'properties' is itself
\* visited as a dict, which runs fix_openai_validation_errors on its values
\* before the recursion reaches them
RECURSIVE fix_schema_types_recursive(_, _)
fix_schema_types_recursive(obj, options) ==
    LET a == fix_openai_validation_errors(obj)
        b == IF a.type.list
             THEN [a EXCEPT !.type = TypeName(options.convert_type_arrays_to)]
             ELSE a
        c == IF options.aggressive /\ b.enum.there
             THEN [b EXCEPT !.enum = StringifyEnum(b.enum)]
             ELSE b
        e == IF options.aggressive /\ IsArrayWithoutItems(c)
             THEN [c EXCEPT !.items = <<DefaultItems>>]
             ELSE c
    IN  [e EXCEPT
            !.items = [i \in 1..Len(e.items) |->
                          fix_schema_types_recursive(e.items[i], options)],
            !.properties = [i \in 1..Len(e.properties) |->
                          fix_schema_types_recursive(
                              fix_openai_validation_errors(e.properties[i]), options)],
            !.anyOf = [i \in 1..Len(e.anyOf) |->
                          fix_schema_types_recursive(e.anyOf[i], options)],
            !.enum.vals = [i \in 1..Len(e.enum.vals) |->
                          IF e.enum.vals[i].str THEN e.enum.vals[i]
                          ELSE [e.enum.vals[i] EXCEPT !.obj =
                                   [j \in 1..Len(@) |->
                                       fix_schema_types_recursive(@[j], options)]]]]

\* the schema trees the normalizer is run on
LeafTypes == {TypeName("string"), TypeName("array"), TypeList(<<"string", "null">>)}
NodeTypes == {NoType, TypeName("object"), TypeName("array"),
              TypeList(<<"array", "null">>)}
Enums == {NoEnum,
          Enum(<<EnumNum(<<"1">>), EnumStr(<<"a">>)>>),
          Enum(<<EnumDict(Schema(TypeName("array"), <<>>, <<>>, <<>>, NoEnum)),
                 EnumStr(<<"a">>)>>)}
Leaves == {Schema(t, <<>>, <<>>, <<>>, e) : t \in LeafTypes, e \in Enums}

RECURSIVE Trees(_)
Trees(depth) ==
    IF depth = 0 THEN Leaves
    ELSE LET sub == Trees(depth - 1) IN
         Leaves
         \cup {Schema(t, <<>>, <<>>, <<>>, NoEnum) : t \in NodeTypes}
         \cup {Schema(t, <<c>>, <<>>, <<>>, NoEnum) : t \in NodeTypes, c \in sub}
         \cup {Schema(t, <<>>, <<c>>, <<>>, NoEnum) : t \in NodeTypes, c \in sub}
         \cup {Schema(t, <<>>, <<>>, <<c>>, NoEnum) : t \in NodeTypes, c \in sub}
         \cup {Schema(t, <<c>>, <<c, DefaultItems>>, <<>>, NoEnum) :
                  t \in NodeTypes, c \in sub}

FallbackTypes == {"string", "array"}
OptionSettings ==
    {SchemaFixOptions(f, a) : f \in FallbackTypes, a \in BOOLEAN}

VARIABLES
    tasks,      \* self.tasks: task id -> task record
    lock,       \* self.lock: 0 when free, else the request holding it
    pc,         \* position of each request's handler
    req,        \* the request each handler is serving
    loc,        \* local variables of _invoke
    resp,       \* what on_send_task gave back to the transport layer
    calls,      \* number of requests received so far
    invoked,    \* number of agent.invoke calls made for the current request
    updLog,     \* per task, the updates in the order they took the lock
    created     \* per task id, how many task records were ever created

\* Web3Agent.invoke
VARIABLES
    events,             \* what runner.run_async yields, in arrival order
    consumed,           \* how many of them the async for has taken
    last_text_response, \* the local of that name
    wpc,                \* position of invoke
    ret                 \* the value invoke returned

\* the runner's session service, as Web3Agent.invoke uses it
VARIABLES
    sessions,           \* the session ids the service holds a session for
    session_id,         \* the session_id argument of the current invoke
    invokes,            \* number of invoke calls so far
    session_created,    \* per id, how many create_session calls were made
    session_used        \* per id, how many invoke calls resolved a session

\* Web3Agent.run_initialization_commands
VARIABLES
    init_completed,     \* self._init_completed
    rpc,                \* position of run_initialization_commands
    cmd_index,          \* the loop index i
    cmd_log,            \* the commands handed to invoke, in order
    init_calls          \* number of calls of run_initialization_commands

\* fix_schema_types_recursive
VARIABLES
    schema,     \* the schema dict, mutated in place
    options,    \* the SchemaFixOptions of the runs
    runs,       \* how many times the normalizer ran on it
    given,      \* the schema before the first run
    once        \* the schema after the first run

\* the tool bridge: _start_mcp_background_thread and Web3Agent.initialize
VARIABLES
    bg,             \* position of the background thread
    mcp_tools,      \* len(_mcp_tools)
    exit_stack,     \* whether _exit_stack was assigned
    mcp_ready,      \* _mcp_ready
    spc,            \* position of _start_mcp_background_thread
    start_elapsed,  \* time.time() - start_time there, in ticks
    ipc,            \* position of Web3Agent.initialize
    init_elapsed,   \* time.time() - start there, in ticks
    agent_tools     \* len(self._tools)

\* patch_object_attributes
VARIABLES
    graph,      \* per object, what dir() lists for it, in dir()'s order
    stack,      \* the calls in progress: the object and the loop position
    visited,    \* the set of that name
    entered,    \* per object, how often a call got past the visited check
    fixed,      \* the attributes handed to fix_schema_types_recursive
    ppc         \* "running", or how the top-level call ended

managerVars == <<tasks, lock, pc, req, loc, resp, calls, invoked, updLog, created>>
sessionVars == <<sessions, session_id, invokes, session_created, session_used>>
initVars == <<init_completed, rpc, cmd_index, cmd_log, init_calls>>
wrapperVars == <<events, consumed, last_text_response, wpc, ret, sessionVars,
                 initVars>>
schemaVars == <<schema, options, runs, given, once>>
bridgeVars == <<bg, mcp_tools, exit_stack, mcp_ready, spc, start_elapsed, ipc,
                init_elapsed, agent_tools>>
patchVars == <<graph, stack, visited, entered, fixed, ppc>>
beyondManager == <<wrapperVars, schemaVars, bridgeVars, patchVars>>
beyondWrapper == <<managerVars, schemaVars, bridgeVars, patchVars>>
beyondSchema == <<managerVars, wrapperVars, bridgeVars, patchVars>>
beyondBridge == <<managerVars, wrapperVars, schemaVars, patchVars>>
beyondPatch == <<managerVars, wrapperVars, schemaVars, bridgeVars>>
vars == <<managerVars, wrapperVars, schemaVars, bridgeVars, patchVars>>

\* the objects of the graph patch_object_attributes is called on; Root is
\* the argument of the top-level call
Objs == {1, 2}
Root == 1

\* no patch_object_attributes call was made
PatchIdle ==
    /\ graph = [o \in Objs |-> <<>>]
    /\ stack = <<>>
    /\ visited = {}
    /\ entered = [o \in Objs |-> 0]
    /\ fixed = {}
    /\ ppc = "returned"

\* the module was imported and the agent initialized some time ago
BridgeIdle ==
    /\ bg = "serving"
    /\ mcp_tools = 1
    /\ exit_stack = TRUE
    /\ mcp_ready = TRUE
    /\ spc = "done"
    /\ start_elapsed = 0
    /\ ipc = "bound"
    /\ init_elapsed = 0
    /\ agent_tools = 1

\* no schema being normalized
SchemaIdle ==
    /\ schema = EmptySchema
    /\ options = DefaultOptions
    /\ runs = 0
    /\ given = EmptySchema
    /\ once = EmptySchema

\* the Task Manager before its first request
ManagerIdle ==
    /\ tasks = [t \in TaskIds |-> NoTask]
    /\ lock = 0
    /\ pc = [r \in Reqs |-> "idle"]
    /\ req = [r \in Reqs |-> NoRequest]
    /\ loc = [r \in Reqs |-> NoLocals]
    /\ resp = [r \in Reqs |-> NoResponse]
    /\ calls = 0
    /\ invoked = [r \in Reqs |-> 0]
    /\ updLog = [t \in TaskIds |-> <<>>]
    /\ created = [t \in TaskIds |-> 0]

\* session ids of clients, and the one of the initialization commands
SessionIds == {"s1", "s2"}
InitSession == "init_session"
AllSessionIds == SessionIds \cup {InitSession}

\* a fresh InMemorySessionService
SessionIdle ==
    /\ sessions = {}
    /\ session_id = "s1"
    /\ invokes = 0
    /\ session_created = [id \in AllSessionIds |-> 0]
    /\ session_used = [id \in AllSessionIds |-> 0]

\* run_initialization_commands was never called
InitCommandsIdle ==
    /\ init_completed = FALSE
    /\ rpc = "idle"
    /\ cmd_index = 0
    /\ cmd_log = <<>>
    /\ init_calls = 0

\* no invoke in progress
WrapperIdle ==
    /\ events = <<>>
    /\ consumed = 0
    /\ last_text_response = RawNone
    /\ wpc = "idle"
    /\ ret = RawNone
    /\ SessionIdle
    /\ InitCommandsIdle

Init ==
    /\ PatchIdle
    /\ tasks = [t \in TaskIds |-> NoTask]
    /\ lock = 0
    /\ pc = [r \in Reqs |-> "idle"]
    /\ req = [r \in Reqs |-> NoRequest]
    /\ loc = [r \in Reqs |-> NoLocals]
    /\ resp = [r \in Reqs |-> NoResponse]
    /\ calls = 0
    /\ invoked = [r \in Reqs |-> 0]
    /\ updLog = [t \in TaskIds |-> <<>>]
    /\ created = [t \in TaskIds |-> 0]
    /\ WrapperIdle
    /\ SchemaIdle
    /\ BridgeIdle

----------------------------------------------------------------------------
(* Validation and upsert *)

\* common.server.utils.are_modalities_compatible
are_modalities_compatible(server_output_modes, client_output_modes) ==
    \/ client_output_modes = {}
    \/ server_output_modes = {}
    \/ client_output_modes \cap server_output_modes # {}

\* validate_request that forgets to return the error
validate_request_accepts_all(request) == NoResponse

\* None (NoResponse) when the request is acceptable, else the error response
validate_request(request) ==
    IF ~are_modalities_compatible(request.modes, SUPPORTED_CONTENT_TYPES)
    THEN ErrorResponse("IncompatibleTypesError")
    ELSE NoResponse

\* on_send_task up to its first suspension point
on_send_task(r) ==
    /\ pc[r] \in {"idle", "done"}
    /\ calls < MaxCalls
    /\ calls' = calls + 1
    /\ \E t \in TaskIds, m \in ModeSets, k \in PartKinds :
         LET request == [task_id |-> t, modes |-> m, part |-> k, streaming |-> FALSE]
             error == validate_request(request)
         IN  /\ req' = [req EXCEPT ![r] = request]
             /\ IF error.kind # "none"
                THEN /\ resp' = [resp EXCEPT ![r] = error]
                     /\ pc' = [pc EXCEPT ![r] = "done"]
                ELSE /\ resp' = [resp EXCEPT ![r] = NoResponse]
                     /\ pc' = [pc EXCEPT ![r] = "upsert"]
    /\ loc' = [loc EXCEPT ![r] = NoLocals]
    /\ invoked' = [invoked EXCEPT ![r] = 0]
    /\ UNCHANGED <<tasks, lock, updLog, created>>
    /\ UNCHANGED beyondManager

\* on_send_task_subscribe up to its first suspension point
on_send_task_subscribe(r) ==
    /\ pc[r] \in {"idle", "done"}
    /\ calls < MaxCalls
    /\ calls' = calls + 1
    /\ \E t \in TaskIds, m \in ModeSets, k \in PartKinds :
         LET request == [task_id |-> t, modes |-> m, part |-> k, streaming |-> TRUE]
             error == validate_request(request)
         IN  /\ req' = [req EXCEPT ![r] = request]
             /\ IF error.kind # "none"
                THEN /\ resp' = [resp EXCEPT ![r] = error]
                     /\ pc' = [pc EXCEPT ![r] = "done"]
                ELSE /\ resp' = [resp EXCEPT ![r] = NoResponse]
                     /\ pc' = [pc EXCEPT ![r] = "upsert"]
    /\ loc' = [loc EXCEPT ![r] = NoLocals]
    /\ invoked' = [invoked EXCEPT ![r] = 0]
    /\ UNCHANGED <<tasks, lock, updLog, created>>
    /\ UNCHANGED beyondManager

\* a lock that never makes anybody wait
LockAlwaysAvailable == TRUE

\* asyncio.Lock: acquire succeeds only while nobody holds the lock
LockAvailable == lock = 0

\* InMemoryTaskManager.upsert_task: create the task if absent, else reuse it
upsert_task(r) ==
    /\ pc[r] = "upsert"
    /\ LockAvailable
    /\ LET t == req[r].task_id IN
       IF tasks[t].present
       THEN UNCHANGED <<tasks, created>>
       ELSE /\ tasks' = [tasks EXCEPT ![t] =
                           [present |-> TRUE,
                            status |-> [state |-> "submitted", parts |-> <<>>],
                            artifacts |-> [isNone |-> TRUE, list |-> <<>>]]]
            /\ created' = [created EXCEPT ![t] = @ + 1]
    /\ loc' = [loc EXCEPT ![r] =
                  [@ EXCEPT !.existed = tasks[req[r].task_id].present]]
    /\ pc' = [pc EXCEPT ![r] = IF req[r].streaming THEN "stream" ELSE "invoke"]
    /\ UNCHANGED <<lock, req, resp, calls, invoked, updLog>>
    /\ UNCHANGED beyondManager

----------------------------------------------------------------------------
(* _stream_generator *)

NotImplementedMsg == <<"Streaming is not implemented">>

\* a streaming operation that falls back to the one-shot pipeline
stream_generator_invokes(r) ==
    /\ pc[r] = "stream"
    /\ pc' = [pc EXCEPT ![r] = "invoke"]
    /\ UNCHANGED <<tasks, lock, req, loc, resp, calls, invoked, updLog, created>>
    /\ UNCHANGED beyondManager

\* the object on_send_task_subscribe returned is driven by the transport
\* layer: its body raises NotImplementedError and does nothing else
stream_generator(r) ==
    /\ pc[r] = "stream"
    /\ resp' = [resp EXCEPT ![r] = Raised(NotImplementedMsg)]
    /\ pc' = [pc EXCEPT ![r] = "done"]
    /\ UNCHANGED <<tasks, lock, req, loc, calls, invoked, updLog, created>>
    /\ UNCHANGED beyondManager

----------------------------------------------------------------------------
(* _invoke *)

\* _get_user_query: the text of the first part, or ValueError
get_user_query_ok(task_send_params) == task_send_params.part = "text"

\* _invoke from its entry to the suspension in asyncio.wait_for
\* variant: the whole of _invoke would run under the store lock
invoke_begin_holding_lock(r) ==
    /\ pc[r] = "invoke"
    /\ LockAvailable
    /\ IF get_user_query_ok(req[r])
       THEN /\ invoked' = [invoked EXCEPT ![r] = @ + 1]
            /\ pc' = [pc EXCEPT ![r] = "wait"]
            /\ lock' = r
            /\ UNCHANGED resp
       ELSE /\ resp' = [resp EXCEPT ![r] = Raised(OnlyTextMsg)]
            /\ pc' = [pc EXCEPT ![r] = "done"]
            /\ UNCHANGED <<invoked, lock>>
    /\ UNCHANGED <<tasks, req, loc, calls, updLog, created>>
    /\ UNCHANGED beyondManager

invoke_begin(r) ==
    /\ pc[r] = "invoke"
    /\ IF get_user_query_ok(req[r])
       THEN /\ invoked' = [invoked EXCEPT ![r] = @ + 1]
            /\ pc' = [pc EXCEPT ![r] = "wait"]
            /\ UNCHANGED resp
       ELSE \* raised before the try block: nothing catches it
            /\ resp' = [resp EXCEPT ![r] = Raised(OnlyTextMsg)]
            /\ pc' = [pc EXCEPT ![r] = "done"]
            /\ UNCHANGED invoked
    /\ UNCHANGED <<tasks, lock, req, loc, calls, updLog, created>>
    /\ UNCHANGED beyondManager

\* agent.invoke returned one of `results` in time: classify it, pick the
\* task state
AgentReturns(r, results) ==
    /\ pc[r] = "wait"
    /\ \E result \in results :
         IF ClassifyRaises(result)
         THEN /\ loc' = [loc EXCEPT ![r] = [@ EXCEPT !.result = result,
                                                     !.error = AttributeErrorMsg]]
              /\ pc' = [pc EXCEPT ![r] = "on_error"]
         ELSE /\ loc' = [loc EXCEPT ![r] = [@ EXCEPT !.result = result,
                                                     !.parts = Classify(result),
                                                     !.task_state = TaskStateOf(result)]]
              /\ pc' = [pc EXCEPT ![r] = "us_lock"]
    /\ UNCHANGED <<tasks, lock, req, resp, calls, invoked, updLog, created>>
    /\ UNCHANGED beyondManager

\* agent.invoke returned None: ValueError("No response received from agent")
AgentReturnsNone(r) ==
    /\ pc[r] = "wait"
    /\ loc' = [loc EXCEPT ![r] = [@ EXCEPT !.error = NoResponseMsg]]
    /\ pc' = [pc EXCEPT ![r] = "on_error"]
    /\ UNCHANGED <<tasks, lock, req, resp, calls, invoked, updLog, created>>
    /\ UNCHANGED beyondManager

\* agent.invoke raised
AgentRaises(r) ==
    /\ pc[r] = "wait"
    /\ loc' = [loc EXCEPT ![r] = [@ EXCEPT !.error = AgentFailureMsg]]
    /\ pc' = [pc EXCEPT ![r] = "on_error"]
    /\ UNCHANGED <<tasks, lock, req, resp, calls, invoked, updLog, created>>
    /\ UNCHANGED beyondManager

\* asyncio.wait_for gave up after BLOCKCHAIN_TIMEOUT seconds
AgentTimeout(r) ==
    /\ pc[r] = "wait"
    /\ loc' = [loc EXCEPT ![r] = [@ EXCEPT !.timedOut = TRUE]]
    /\ pc' = [pc EXCEPT ![r] = "on_timeout"]
    /\ UNCHANGED <<tasks, lock, req, resp, calls, invoked, updLog, created>>
    /\ UNCHANGED beyondManager

----------------------------------------------------------------------------
(* _update_store, statement by statement *)

Artifact(parts) == [parts |-> parts]
\* a status built without its message
TaskStatusNoMessage(state, parts) == [state |-> state, parts |-> <<>>]
TaskStatus(state, parts) == [state |-> state, parts |-> parts]

\* async with self.lock
us_acquire(r) ==
    /\ pc[r] = "us_lock"
    /\ LockAvailable
    /\ lock' = r
    /\ updLog' = [updLog EXCEPT ![req[r].task_id] =
                     Append(@, [by |-> r,
                                status |-> TaskStatus(loc[r].task_state, loc[r].parts),
                                artifact |-> Artifact(loc[r].parts)])]
    /\ loc' = [loc EXCEPT ![r] =
                  [@ EXCEPT !.before = tasks[req[r].task_id].artifacts.list]]
    /\ pc' = [pc EXCEPT ![r] = "us_lookup"]
    /\ UNCHANGED <<tasks, req, resp, calls, invoked, created>>
    /\ UNCHANGED beyondManager

TaskNotFoundMsg(task_id) == <<"Task ", task_id, " not found">>

\* a lookup that creates the record it does not find
us_lookup_creates(r) ==
    /\ pc[r] = "us_lookup"
    /\ tasks' = [tasks EXCEPT ![req[r].task_id] =
                    [present |-> TRUE,
                     status |-> [state |-> "submitted", parts |-> <<>>],
                     artifacts |-> [isNone |-> TRUE, list |-> <<>>]]]
    /\ pc' = [pc EXCEPT ![r] = "us_status"]
    /\ UNCHANGED <<lock, loc, req, resp, calls, invoked, updLog, created>>
    /\ UNCHANGED beyondManager

\* task = self.tasks[task_id], KeyError turned into ValueError
us_lookup(r) ==
    /\ pc[r] = "us_lookup"
    /\ IF tasks[req[r].task_id].present
       THEN /\ pc' = [pc EXCEPT ![r] = "us_status"]
            /\ UNCHANGED <<lock, loc>>
       ELSE /\ lock' = 0
            /\ loc' = [loc EXCEPT ![r] =
                          [@ EXCEPT !.error = TaskNotFoundMsg(req[r].task_id)]]
            /\ pc' = [pc EXCEPT ![r] = "on_error"]
    /\ UNCHANGED <<tasks, req, resp, calls, invoked, updLog, created>>
    /\ UNCHANGED beyondManager

\* an update that leaves the status as it was
us_status_skipped(r) ==
    /\ pc[r] = "us_status"
    /\ pc' = [pc EXCEPT ![r] = "us_art"]
    /\ UNCHANGED <<tasks, lock, req, loc, resp, calls, invoked, updLog, created>>
    /\ UNCHANGED beyondManager

\* task.status = status
us_status(r) ==
    /\ pc[r] = "us_status"
    /\ tasks' = [tasks EXCEPT ![req[r].task_id].status =
                    TaskStatus(loc[r].task_state, loc[r].parts)]
    /\ pc' = [pc EXCEPT ![r] = "us_art"]
    /\ UNCHANGED <<lock, req, loc, resp, calls, invoked, updLog, created>>
    /\ UNCHANGED beyondManager

\* if task.artifacts is None
us_art(r) ==
    /\ pc[r] = "us_art"
    /\ pc' = [pc EXCEPT ![r] =
                 IF tasks[req[r].task_id].artifacts.isNone THEN "us_init"
                 ELSE "us_extend"]
    /\ UNCHANGED <<tasks, lock, req, loc, resp, calls, invoked, updLog, created>>
    /\ UNCHANGED beyondManager

\* task.artifacts = []
us_init(r) ==
    /\ pc[r] = "us_init"
    /\ tasks' = [tasks EXCEPT ![req[r].task_id].artifacts =
                    [isNone |-> FALSE, list |-> <<>>]]
    /\ pc' = [pc EXCEPT ![r] = "us_extend"]
    /\ UNCHANGED <<lock, req, loc, resp, calls, invoked, updLog, created>>
    /\ UNCHANGED beyondManager

\* extend called twice
ExtendArtifactsTwice(list, artifacts) == list \o artifacts \o artifacts

\* assignment instead of extend
ReplaceArtifacts(list, artifacts) == artifacts

\* insertion at the front instead of extend
ExtendArtifactsPrepend(list, artifacts) == artifacts \o list

\* list.extend
ExtendArtifacts(list, artifacts) == list \o artifacts

\* task.artifacts.extend(artifacts)
us_extend(r) ==
    /\ pc[r] = "us_extend"
    /\ tasks' = [tasks EXCEPT ![req[r].task_id].artifacts.list =
                    ExtendArtifacts(@, <<Artifact(loc[r].parts)>>)]
    /\ loc' = [loc EXCEPT ![r] =
                  [@ EXCEPT !.appended =
                       @ + Len(tasks'[req[r].task_id].artifacts.list)
                         - Len(tasks[req[r].task_id].artifacts.list)]]
    /\ pc' = [pc EXCEPT ![r] = "us_return"]
    /\ UNCHANGED <<lock, req, resp, calls, invoked, updLog, created>>
    /\ UNCHANGED beyondManager

\* return task (the lock is released), then SendTaskResponse(result=task)
us_return(r) ==
    /\ pc[r] = "us_return"
    /\ lock' = 0
    /\ resp' = [resp EXCEPT ![r] = TaskResponse(tasks[req[r].task_id])]
    /\ pc' = [pc EXCEPT ![r] = "done"]
    /\ UNCHANGED <<tasks, req, loc, calls, invoked, updLog, created>>
    /\ UNCHANGED beyondManager

----------------------------------------------------------------------------
(* The error path *)

\* A handler that has started and not yet returned is a coroutine being
\* driven by the server's event loop.
LoopRunning(r) == pc[r] \notin {"idle", "done"}

\* _update_store run to completion in one piece
StoreUpdated(task, status, artifacts) ==
    [task EXCEPT !.status = status,
                 !.artifacts = [isNone |-> FALSE,
                                list |-> ExtendArtifacts(@.list, artifacts)]]

\* the status _create_error_response hands to _update_store
ErrorStatus(error_msg) == TaskStatus("completed", <<TextPart(error_msg)>>)

\* _create_error_response: asyncio.run() raises RuntimeError when the calling
\* thread is already running an event loop, before the coroutine it was given
\* takes its first step, and _update_store raises ValueError for a missing
\* task; the except clause turns either into ValueError(error_msg)
ErrorOutcome(r, error_msg) ==
    IF LoopRunning(r) \/ ~tasks[req[r].task_id].present
    THEN Raised(error_msg)
    ELSE TaskResponse(StoreUpdated(tasks[req[r].task_id],
                                   ErrorStatus(error_msg),
                                   <<Artifact(<<TextPart(error_msg)>>)>>))

create_error_response(r, error_msg) ==
    LET out == ErrorOutcome(r, error_msg) IN
    IF out.kind = "task"
    THEN tasks' = [tasks EXCEPT ![req[r].task_id] = out.task]
    ELSE UNCHANGED tasks

\* a timeout handler that asks the agent again
on_timeout_retries(r) ==
    /\ pc[r] = "on_timeout"
    /\ pc' = [pc EXCEPT ![r] = IF invoked[r] < 2 THEN "invoke" ELSE "on_error"]
    /\ UNCHANGED <<tasks, lock, req, loc, resp, calls, invoked, updLog, created>>
    /\ UNCHANGED beyondManager

\* except asyncio.TimeoutError: what _create_error_response raises here is
\* caught by the enclosing except Exception
on_timeout(r) ==
    /\ pc[r] = "on_timeout"
    /\ create_error_response(r, TimeoutMsg)
    /\ LET out == ErrorOutcome(r, TimeoutMsg) IN
       IF out.kind = "task"
       THEN /\ resp' = [resp EXCEPT ![r] = out]
            /\ pc' = [pc EXCEPT ![r] = "done"]
            /\ loc' = [loc EXCEPT ![r] = [@ EXCEPT !.appended = @ + 1]]
       ELSE /\ loc' = [loc EXCEPT ![r] = [@ EXCEPT !.error = out.msg]]
            /\ pc' = [pc EXCEPT ![r] = "on_error"]
            /\ UNCHANGED resp
    /\ UNCHANGED <<lock, req, calls, invoked, updLog, created>>
    /\ UNCHANGED beyondManager

\* except Exception as e: what _create_error_response raises here leaves
\* _invoke and on_send_task
on_error(r) ==
    /\ pc[r] = "on_error"
    /\ create_error_response(r, ErrorPrefix \o loc[r].error)
    /\ resp' = [resp EXCEPT ![r] = ErrorOutcome(r, ErrorPrefix \o loc[r].error)]
    /\ loc' = IF ErrorOutcome(r, ErrorPrefix \o loc[r].error).kind = "task"
              THEN [loc EXCEPT ![r] = [@ EXCEPT !.appended = @ + 1]]
              ELSE loc
    /\ pc' = [pc EXCEPT ![r] = "done"]
    /\ UNCHANGED <<lock, req, calls, invoked, updLog, created>>
    /\ UNCHANGED beyondManager

----------------------------------------------------------------------------
(* Specifications *)

Alphabet == {"{", "}", "[", "]", "\"", ":", ",", " ", "M", "1"}
Strings == UNION {[1..n -> Alphabet] : n \in 0..MaxStrLen}

BalanceText ==
    <<"B", "a", "l", "a", "n", "c", "e", ":", " ", "1", ".", "5", " ", "E", "T", "H">>

Step(r, results) ==
    \/ on_send_task(r)
    \/ on_send_task_subscribe(r)
    \/ upsert_task(r)
    \/ stream_generator(r)
    \/ invoke_begin(r)
    \/ AgentReturns(r, results)
    \/ AgentReturnsNone(r)
    \/ AgentRaises(r)
    \/ AgentTimeout(r)
    \/ us_acquire(r)
    \/ us_lookup(r)
    \/ us_status(r)
    \/ us_art(r)
    \/ us_init(r)
    \/ us_extend(r)
    \/ us_return(r)
    \/ on_timeout(r)
    \/ on_error(r)

Next == \E r \in Reqs : Step(r, SmallResults)

Spec == Init /\ [][Next]_vars

----------------------------------------------------------------------------
(* The classifier on its own: one request that was received, upserted and  *)
(* is waiting for the agent, with the agent's value drawn from a wide set. *)

MapKeys == {<<"M">>, <<"M", ":">>, <<"\"">>}
Primitives == {JNum(<<"1">>), JStr(<<"M", ":">>), JStr(<<"\"">>), JNull}

DistinctKeySeqs(n) ==
    {ks \in [1..n -> MapKeys] : \A i, j \in 1..n : i # j => ks[i] # ks[j]}

Mappings ==
    UNION {{JObj(ks, vs) : ks \in DistinctKeySeqs(n), vs \in [1..n -> Primitives]}
           : n \in 0..MaxKeys}

ClassifyInputs ==
    {RawStr(s) : s \in Strings}
    \cup {RawStr(BalanceText)}
    \cup {RawObj(d) : d \in Mappings}
    \cup {AgentSerialize(RawObj(d)) : d \in Mappings}
    \cup {RawInt(<<"1">>)}

InitClassify ==
    /\ PatchIdle
    /\ tasks = [t \in TaskIds |->
                  IF t = "t1"
                  THEN [present |-> TRUE,
                        status |-> [state |-> "submitted", parts |-> <<>>],
                        artifacts |-> [isNone |-> TRUE, list |-> <<>>]]
                  ELSE NoTask]
    /\ lock = 0
    /\ pc = [r \in Reqs |-> IF r = 1 THEN "wait" ELSE "idle"]
    /\ req = [r \in Reqs |->
                IF r = 1 THEN [task_id |-> "t1", modes |-> {"text"}, part |-> "text",
                               streaming |-> FALSE]
                ELSE NoRequest]
    /\ loc = [r \in Reqs |-> NoLocals]
    /\ resp = [r \in Reqs |-> NoResponse]
    /\ calls = 1
    /\ invoked = [r \in Reqs |-> IF r = 1 THEN 1 ELSE 0]
    /\ updLog = [t \in TaskIds |-> <<>>]
    /\ created = [t \in TaskIds |-> IF t = "t1" THEN 1 ELSE 0]
    /\ WrapperIdle
    /\ SchemaIdle
    /\ BridgeIdle

NextClassify ==
    \/ AgentReturns(1, ClassifyInputs)
    \/ us_acquire(1)
    \/ us_lookup(1)
    \/ us_status(1)
    \/ us_art(1)
    \/ us_init(1)
    \/ us_extend(1)
    \/ us_return(1)
    \/ on_error(1)

SpecClassify == InitClassify /\ [][NextClassify]_vars

----------------------------------------------------------------------------
(* _update_store on its own: one request about to update the store, for    *)
(* every store content, the record of its task being there or not.         *)

StoredTasks ==
    {NoTask,
     [present |-> TRUE, status |-> [state |-> "submitted", parts |-> <<>>],
      artifacts |-> [isNone |-> TRUE, list |-> <<>>]],
     [present |-> TRUE,
      status |-> TaskStatus("completed", <<TextPart(BalanceText)>>),
      artifacts |-> [isNone |-> FALSE,
                     list |-> <<Artifact(<<TextPart(BalanceText)>>)>>]]}

InitStore ==
    /\ PatchIdle
    /\ tasks \in [TaskIds -> StoredTasks]
    /\ lock = 0
    /\ pc = [r \in Reqs |-> IF r = 1 THEN "us_lock" ELSE "idle"]
    /\ \E t \in TaskIds :
          req = [r \in Reqs |->
                   IF r = 1 THEN [task_id |-> t, modes |-> {"text"}, part |-> "text",
                                  streaming |-> FALSE]
                   ELSE NoRequest]
    /\ \E result \in SmallResults :
          loc = [r \in Reqs |->
                   IF r = 1 THEN [NoLocals EXCEPT !.result = result,
                                                  !.parts = Classify(result),
                                                  !.task_state = TaskStateOf(result)]
                   ELSE NoLocals]
    /\ resp = [r \in Reqs |-> NoResponse]
    /\ calls = 1
    /\ invoked = [r \in Reqs |-> IF r = 1 THEN 1 ELSE 0]
    /\ updLog = [t \in TaskIds |-> <<>>]
    /\ created = [t \in TaskIds |-> IF tasks[t].present THEN 1 ELSE 0]
    /\ WrapperIdle
    /\ SchemaIdle
    /\ BridgeIdle

NextStore ==
    \/ us_acquire(1)
    \/ us_lookup(1)
    \/ us_status(1)
    \/ us_art(1)
    \/ us_init(1)
    \/ us_extend(1)
    \/ us_return(1)
    \/ on_error(1)

SpecStore == InitStore /\ [][NextStore]_vars

----------------------------------------------------------------------------
(* One request blocked in the agent invocation: request 1 was received and  *)
(* upserted for task t1, enters the wait and gets no answer; request 2 is   *)
(* free to send requests for either task id meanwhile.                      *)

InitOverlap ==
    /\ PatchIdle
    /\ tasks = [t \in TaskIds |->
                  IF t = "t1"
                  THEN [present |-> TRUE,
                        status |-> [state |-> "submitted", parts |-> <<>>],
                        artifacts |-> [isNone |-> TRUE, list |-> <<>>]]
                  ELSE NoTask]
    /\ lock = 0
    /\ pc = [r \in Reqs |-> IF r = 1 THEN "invoke" ELSE "idle"]
    /\ req = [r \in Reqs |->
                IF r = 1 THEN [task_id |-> "t1", modes |-> {"text"}, part |-> "text",
                               streaming |-> FALSE]
                ELSE NoRequest]
    /\ loc = [r \in Reqs |-> NoLocals]
    /\ resp = [r \in Reqs |-> NoResponse]
    /\ calls = 1
    /\ invoked = [r \in Reqs |-> 0]
    /\ updLog = [t \in TaskIds |-> <<>>]
    /\ created = [t \in TaskIds |-> IF t = "t1" THEN 1 ELSE 0]
    /\ WrapperIdle
    /\ SchemaIdle
    /\ BridgeIdle

NextOverlap ==
    \/ invoke_begin(1)
    \/ Step(2, SmallResults)

\* the event loop keeps running the coroutine of request 2
SpecOverlap ==
    /\ InitOverlap
    /\ [][NextOverlap]_vars
    /\ WF_vars(Step(2, SmallResults))

----------------------------------------------------------------------------
(* Web3Agent.invoke: the loop over the events of runner.run_async *)

MaxEvents == 3

\* a part of an event's content: function_response is absent (set = FALSE)
\* or carries a payload, text may be empty, function_call is there or not
Part(hasResponse, payload, text, hasCall) ==
    [function_response |-> [set |-> hasResponse, response |-> payload],
     text |-> text, function_call |-> hasCall]
ResponsePart(payload) == Part(TRUE, payload, <<>>, FALSE)
TextOnlyPart(text) == Part(FALSE, RawNone, text, FALSE)
CallPart == Part(FALSE, RawNone, <<>>, TRUE)

\* an event: its content.parts (empty when there is no content), or the
\* exception the stream raises instead of yielding it
Event(parts) == [parts |-> parts, raises |-> "none", msg |-> <<>>]
\* the stream raises an exception of class exc whose str() is msg
RaisingWith(exc, msg) == [parts |-> <<>>, raises |-> exc, msg |-> msg]
Raising(exc) == RaisingWith(exc, <<"stream failed">>)

PayloadX == RawObj(JObj(<< <<"M">> >>, <<JNum(<<"1">>)>>))
PayloadY == RawObj(JObj(<<>>, <<>>))
TextA == <<"a">>
TextB == <<"M", ":">>

EventKinds ==
    {Event(<<>>),
     Event(<<TextOnlyPart(TextA)>>),
     Event(<<TextOnlyPart(TextB)>>),
     Event(<<TextOnlyPart(<<>>)>>),
     Event(<<CallPart>>),
     Event(<<ResponsePart(PayloadX)>>),
     Event(<<ResponsePart(PayloadY)>>),
     Event(<<TextOnlyPart(TextA), ResponsePart(PayloadX)>>),
     Event(<<ResponsePart(PayloadY), TextOnlyPart(TextB)>>),
     Event(<<CallPart, TextOnlyPart(TextB)>>),
     Event(<<Part(TRUE, PayloadX, TextA, TRUE)>>),
     Raising("TimeoutError"),
     Raising("Exception"),
     RaisingWith("Exception", Sentinel)}

EventStreams == UNION {[1..n -> EventKinds] : n \in 0..MaxEvents}

NoUsableResponse == <<"No usable response received">>
QueryTimedOut == <<"Query timed out">>
\* f"Error: {str(e)}"
ErrorStr(msg) == <<"Error: ">> \o msg

\* the loop that lets an earlier text take precedence over a tool response
RECURSIVE ProcessPartsTextFirst(_, _, _)
ProcessPartsTextFirst(parts, i, last) ==
    IF i > Len(parts)
    THEN [returned |-> FALSE, value |-> RawNone, last |-> last]
    ELSE IF parts[i].function_response.set /\ last = RawNone
         THEN [returned |-> TRUE,
               value |-> AgentSerialize(parts[i].function_response.response),
               last |-> last]
         ELSE IF parts[i].text # <<>>
              THEN ProcessPartsTextFirst(parts, i + 1, RawStr(parts[i].text))
              ELSE ProcessPartsTextFirst(parts, i + 1, last)

\* the loop that forgets the text seen so far when it meets a tool call
RECURSIVE ProcessPartsCallClears(_, _, _)
ProcessPartsCallClears(parts, i, last) ==
    IF i > Len(parts)
    THEN [returned |-> FALSE, value |-> RawNone, last |-> last]
    ELSE IF parts[i].function_response.set
         THEN [returned |-> TRUE,
               value |-> AgentSerialize(parts[i].function_response.response),
               last |-> last]
         ELSE IF parts[i].text # <<>>
              THEN ProcessPartsCallClears(parts, i + 1, RawStr(parts[i].text))
              ELSE IF parts[i].function_call
                   THEN ProcessPartsCallClears(parts, i + 1, RawNone)
                   ELSE ProcessPartsCallClears(parts, i + 1, last)

\* for part in event.content.parts, from part i on: either a return with a
\* value, or the new last_text_response
RECURSIVE ProcessParts(_, _, _)
ProcessParts(parts, i, last) ==
    IF i > Len(parts)
    THEN [returned |-> FALSE, value |-> RawNone, last |-> last]
    ELSE IF parts[i].function_response.set
         THEN [returned |-> TRUE,
               value |-> AgentSerialize(parts[i].function_response.response),
               last |-> last]
         ELSE IF parts[i].text # <<>>
              THEN ProcessParts(parts, i + 1, RawStr(parts[i].text))
              ELSE ProcessParts(parts, i + 1, last)

\* one turn of the async for: the stream yields its next event
NextEvent ==
    /\ wpc = "loop"
    /\ consumed < Len(events)
    /\ events[consumed + 1].raises = "none"
    /\ consumed' = consumed + 1
    /\ LET out == ProcessParts(events[consumed + 1].parts, 1, last_text_response) IN
       IF out.returned
       THEN /\ ret' = out.value
            /\ wpc' = "returned"
            /\ UNCHANGED last_text_response
       ELSE /\ last_text_response' = out.last
            /\ UNCHANGED <<ret, wpc>>
    /\ UNCHANGED <<events, sessionVars, initVars, beyondWrapper>>

\* an except clause that raises again
StreamRaisesAgain ==
    /\ wpc = "loop"
    /\ consumed < Len(events)
    /\ events[consumed + 1].raises # "none"
    /\ wpc' = "raised"
    /\ UNCHANGED <<events, consumed, last_text_response, ret, sessionVars,
                   initVars, beyondWrapper>>

\* the stream raises instead of yielding: the two except clauses
StreamRaises ==
    /\ wpc = "loop"
    /\ consumed < Len(events)
    /\ events[consumed + 1].raises # "none"
    /\ ret' = IF events[consumed + 1].raises = "TimeoutError"
              THEN RawStr(QueryTimedOut)
              ELSE RawStr(ErrorStr(events[consumed + 1].msg))
    /\ wpc' = "returned"
    /\ UNCHANGED <<events, consumed, last_text_response, sessionVars, initVars,
                   beyondWrapper>>

\* the stream is exhausted: the code after the loop
StreamEnds ==
    /\ wpc = "loop"
    /\ consumed = Len(events)
    /\ ret' = IF last_text_response # RawNone THEN last_text_response
              ELSE RawStr(NoUsableResponse)
    /\ wpc' = "returned"
    /\ UNCHANGED <<events, consumed, last_text_response, sessionVars, initVars,
                   beyondWrapper>>

\* invoke entering its try block, for every stream the runner may produce
InitInvoke ==
    /\ PatchIdle
    /\ ManagerIdle
    /\ SchemaIdle
    /\ BridgeIdle
    /\ events \in EventStreams
    /\ consumed = 0
    /\ last_text_response = RawNone
    /\ wpc = "loop"
    /\ ret = RawNone
    /\ sessions = {"s1"}
    /\ session_id = "s1"
    /\ invokes = 1
    /\ session_created = [id \in AllSessionIds |-> IF id = "s1" THEN 1 ELSE 0]
    /\ session_used = [id \in AllSessionIds |-> IF id = "s1" THEN 1 ELSE 0]
    /\ InitCommandsIdle

NextInvoke == NextEvent \/ StreamRaises \/ StreamEnds

SpecInvoke == InitInvoke /\ [][NextInvoke]_vars

----------------------------------------------------------------------------
(* Web3Agent.invoke from its first line: a sequence of invoke calls with    *)
(* session ids of the caller's choice.                                      *)

MaxInvokes == 3

SessionStreams ==
    {<<>>,
     <<Event(<<TextOnlyPart(TextA)>>)>>,
     <<Event(<<ResponsePart(PayloadY)>>)>>,
     <<Raising("Exception")>>}

NotInitializedMsg == <<"Agent not initialized. Call initialize() first.">>

\* session_service.get_session(...) is not None
get_session(id) == id \in sessions

\* session_service.create_session(...)
create_session(id) ==
    /\ sessions' = sessions \cup {id}
    /\ session_created' = [session_created EXCEPT ![id] = @ + 1]

\* invoke(query, sid) is called; the runner will yield `stream`
BeginInvoke(sid, stream) ==
    /\ events' = stream
    /\ consumed' = 0
    /\ last_text_response' = RawNone
    /\ ret' = RawNone
    /\ session_id' = sid
    /\ invokes' = invokes + 1
    /\ wpc' = IF ipc = "bound" THEN "session" ELSE "raised"

\* a caller invokes the agent once the previous invoke has returned
invoke_call ==
    /\ wpc \in {"idle", "returned"}
    /\ rpc = "idle"
    /\ invokes < MaxInvokes
    /\ \E sid \in SessionIds, stream \in SessionStreams : BeginInvoke(sid, stream)
    /\ UNCHANGED <<sessions, session_created, session_used, initVars, beyondWrapper>>

\* a create_session call whatever get_session returned
ResolveSessionAnew ==
    /\ wpc = "session"
    /\ create_session(session_id)
    /\ session_used' = [session_used EXCEPT ![session_id] = @ + 1]
    /\ wpc' = "loop"
    /\ UNCHANGED <<events, consumed, last_text_response, ret, session_id, invokes,
                   initVars, beyondWrapper>>

\* "Get or create the session"
ResolveSession ==
    /\ wpc = "session"
    /\ IF get_session(session_id)
       THEN UNCHANGED <<sessions, session_created>>
       ELSE create_session(session_id)
    /\ session_used' = [session_used EXCEPT ![session_id] = @ + 1]
    /\ wpc' = "loop"
    /\ UNCHANGED <<events, consumed, last_text_response, ret, session_id, invokes,
                   initVars, beyondWrapper>>

InitSessions ==
    /\ PatchIdle
    /\ ManagerIdle
    /\ SchemaIdle
    /\ BridgeIdle
    /\ WrapperIdle

NextSessions ==
    \/ invoke_call
    \/ ResolveSession
    \/ NextEvent
    \/ StreamRaises
    \/ StreamEnds

SpecSessions == InitSessions /\ [][NextSessions]_vars

----------------------------------------------------------------------------
(* Web3Agent.run_initialization_commands, called one time after another on *)
(* an initialized agent; each command is an invoke on the session           *)
(* "init_session" that returns, outlasts the 15 seconds of wait_for, or     *)
(* raises.                                                                  *)

MaxInitCalls == 2

\* the three commands of INIT_COMMANDS, by what they ask for
INIT_COMMANDS == <<"load private key", "wallet address", "wallet balance">>

\* run_initialization_commands is called: the two checks at its start
run_initialization_commands ==
    /\ rpc \in {"idle", "done"}
    /\ init_calls < MaxInitCalls
    /\ init_calls' = init_calls + 1
    /\ rpc' = IF ipc # "bound" THEN "raised"
              ELSE IF init_completed THEN "done"
              ELSE "create"
    /\ UNCHANGED <<init_completed, cmd_index, cmd_log>>
    /\ UNCHANGED <<events, consumed, last_text_response, wpc, ret, sessionVars,
                   beyondWrapper>>

\* session_service.create_session(..., session_id="init_session")
init_create_session ==
    /\ rpc = "create"
    /\ create_session(InitSession)
    /\ cmd_index' = 0
    /\ rpc' = "loop"
    /\ UNCHANGED <<init_completed, cmd_log, init_calls>>
    /\ UNCHANGED <<events, consumed, last_text_response, wpc, ret, session_id,
                   invokes, session_used, beyondWrapper>>

\* the head of "for i, command in enumerate(INIT_COMMANDS)": the next
\* command is handed to invoke under wait_for, or the loop is over and
\* self._init_completed = True
init_next_command ==
    /\ rpc = "loop"
    /\ IF cmd_index < Len(INIT_COMMANDS)
       THEN /\ cmd_log' = Append(cmd_log, [command |-> INIT_COMMANDS[cmd_index + 1],
                                           outcome |-> "running"])
            /\ \E stream \in SessionStreams : BeginInvoke(InitSession, stream)
            /\ rpc' = "waiting"
            /\ UNCHANGED init_completed
       ELSE /\ init_completed' = TRUE
            /\ rpc' = "done"
            /\ UNCHANGED <<cmd_log, events, consumed, last_text_response, wpc, ret,
                           session_id, invokes>>
    /\ UNCHANGED <<cmd_index, init_calls, sessions, session_created, session_used,
                   beyondWrapper>>

\* the session service or the runner raises before invoke enters its try
\* block; nothing in invoke catches that
invoke_raises ==
    /\ wpc = "session"
    /\ wpc' = "raised"
    /\ UNCHANGED <<events, consumed, last_text_response, ret, sessionVars, initVars,
                   beyondWrapper>>

\* the loop body is over for this command: on to the next index
CommandEnds(outcome) ==
    /\ cmd_log' = [cmd_log EXCEPT ![Len(cmd_log)].outcome = outcome]
    /\ cmd_index' = cmd_index + 1
    /\ rpc' = "loop"
    /\ UNCHANGED <<init_completed, init_calls>>
    /\ UNCHANGED <<events, consumed, last_text_response, ret, sessionVars,
                   beyondWrapper>>

\* invoke returned in time: the response is printed
command_returned ==
    /\ rpc = "waiting"
    /\ wpc = "returned"
    /\ CommandEnds("returned")
    /\ UNCHANGED wpc

\* a timeout that ends the whole run
command_timed_out_for_good ==
    /\ rpc = "waiting"
    /\ wpc \in {"session", "loop"}
    /\ wpc' = "cancelled"
    /\ rpc' = "raised"
    /\ UNCHANGED <<init_completed, cmd_index, cmd_log, init_calls>>
    /\ UNCHANGED <<events, consumed, last_text_response, ret, sessionVars,
                   beyondWrapper>>

\* wait_for gave up after init_timeout seconds and cancelled the invoke:
\* except asyncio.TimeoutError: continue
command_timed_out ==
    /\ rpc = "waiting"
    /\ wpc \in {"session", "loop"}
    /\ wpc' = "cancelled"
    /\ CommandEnds("timeout")

\* invoke raised: except Exception: continue
command_raised ==
    /\ rpc = "waiting"
    /\ wpc = "raised"
    /\ CommandEnds("raised")
    /\ UNCHANGED wpc

InitInitCommands ==
    /\ PatchIdle
    /\ ManagerIdle
    /\ SchemaIdle
    /\ BridgeIdle
    /\ WrapperIdle

NextInitCommands ==
    \/ run_initialization_commands
    \/ init_create_session
    \/ init_next_command
    \/ ResolveSession
    \/ invoke_raises
    \/ NextEvent
    \/ StreamRaises
    \/ StreamEnds
    \/ command_returned
    \/ command_timed_out
    \/ command_raised

\* the coroutine of run_initialization_commands keeps running, and wait_for
\* ends every wait: by the invoke's return or exception, or by the timeout
SpecInitCommands ==
    /\ InitInitCommands
    /\ [][NextInitCommands]_vars
    /\ WF_vars(init_create_session)
    /\ WF_vars(init_next_command)
    /\ WF_vars(command_returned \/ command_timed_out \/ command_raised)

----------------------------------------------------------------------------
(* Running the schema normalizer on one schema, again and again *)

Normalize ==
    /\ runs < MaxRuns
    /\ schema' = fix_schema_types_recursive(schema, options)
    /\ runs' = runs + 1
    /\ once' = IF runs = 0 THEN schema' ELSE once
    /\ UNCHANGED <<options, given, beyondSchema>>

InitSchema ==
    /\ PatchIdle
    /\ ManagerIdle
    /\ WrapperIdle
    /\ BridgeIdle
    /\ schema \in Trees(MaxDepth)
    /\ options \in OptionSettings
    /\ runs = 0
    /\ given = schema
    /\ once = schema

NextSchema == Normalize

SpecSchema == InitSchema /\ [][NextSchema]_vars

----------------------------------------------------------------------------
(* patch_object_attributes on a graph of objects. An attribute is one of:   *)
(*   "skipped"   its name starts with '_' or its value is callable          *)
(*   "prim"      a str, int, float, bool or None                            *)
(*   "dict"      a dict or list that fix_schema_types_recursive fixes       *)
(*   "baddict"   a dict or list on which fix_schema_types_recursive raises  *)
(*               (one that contains itself: RecursionError)                 *)
(*   "attrerr"   a property whose getter raises AttributeError              *)
(*   "othererr"  a property whose getter raises any other exception         *)
(*   "ref"       another object                                             *)

MaxAttrs == 2

Attr(kind) == [kind |-> kind, to |-> Root]
Ref(o) == [kind |-> "ref", to |-> o]

RootKinds ==
    {Attr("skipped"), Attr("prim"), Attr("dict"), Attr("baddict"), Attr("attrerr"),
     Attr("othererr")} \cup {Ref(o) : o \in Objs}
NestedKinds == {Attr("dict"), Attr("othererr")} \cup {Ref(o) : o \in Objs}

AttrLists(kinds) == UNION {[1..n -> kinds] : n \in 0..MaxAttrs}

Frame(obj, i) == [obj |-> obj, i |-> i]
Top == stack[Len(stack)]
TopAttr == graph[Top.obj][Top.i]
InLoop == ppc = "running" /\ Top.i >= 1 /\ Top.i <= Len(graph[Top.obj])

\* the call on top of the stack is over, by return or by an exception that
\* leaves it: the caller, whose try block holds the call, goes on with its
\* next attribute; with no caller the top-level call has ended
Leave(how) ==
    IF Len(stack) = 1
    THEN /\ stack' = <<>>
         /\ ppc' = how
    ELSE /\ stack' = [SubSeq(stack, 1, Len(stack) - 1) EXCEPT
                         ![Len(stack) - 1].i = @ + 1]
         /\ UNCHANGED ppc

\* the loop goes on with the next attribute name
Continue ==
    /\ stack' = [stack EXCEPT ![Len(stack)].i = @ + 1]
    /\ UNCHANGED ppc

\* if obj_id in visited: return; visited.add(obj_id)
po_enter ==
    /\ ppc = "running"
    /\ Top.i = 0
    /\ IF Top.obj \in visited
       THEN /\ Leave("returned")
            /\ UNCHANGED <<visited, entered>>
       ELSE /\ visited' = visited \cup {Top.obj}
            /\ entered' = [entered EXCEPT ![Top.obj] = @ + 1]
            /\ Continue
    /\ UNCHANGED <<graph, fixed, beyondPatch>>

\* if attr_name.startswith('_') or callable(getattr(obj, attr_name, None)):
\* continue
po_skip ==
    /\ InLoop
    /\ TopAttr.kind = "skipped"
    /\ Continue
    /\ UNCHANGED <<graph, visited, entered, fixed, beyondPatch>>

\* the getattr of that same line, which stands before the try block: its
\* default covers AttributeError only, any other exception of the getter
\* leaves the call
po_access_raises ==
    /\ InLoop
    /\ TopAttr.kind = "othererr"
    /\ Leave("raised")
    /\ UNCHANGED <<graph, visited, entered, fixed, beyondPatch>>

\* the isinstance(attr, dict) and isinstance(attr, list) branches
po_fix ==
    /\ InLoop
    /\ TopAttr.kind = "dict"
    /\ fixed' = fixed \cup {<<Top.obj, Top.i>>}
    /\ Continue
    /\ UNCHANGED <<graph, visited, entered, beyondPatch>>

\* getattr or fix_schema_types_recursive raises inside the try block:
\* except Exception, on to the next attribute
po_caught ==
    /\ InLoop
    /\ TopAttr.kind \in {"attrerr", "baddict"}
    /\ Continue
    /\ UNCHANGED <<graph, visited, entered, fixed, beyondPatch>>

\* a str, int, float, bool or None: no branch is taken
po_prim ==
    /\ InLoop
    /\ TopAttr.kind = "prim"
    /\ Continue
    /\ UNCHANGED <<graph, visited, entered, fixed, beyondPatch>>

\* patch_object_attributes(attr, ..., options, visited)
po_recurse ==
    /\ InLoop
    /\ TopAttr.kind = "ref"
    /\ stack' = Append(stack, Frame(TopAttr.to, 0))
    /\ UNCHANGED <<graph, visited, entered, fixed, ppc, beyondPatch>>

\* dir(obj) is exhausted
po_return ==
    /\ ppc = "running"
    /\ Top.i > Len(graph[Top.obj])
    /\ Leave("returned")
    /\ UNCHANGED <<graph, visited, entered, fixed, beyondPatch>>

\* patch_object_attributes(Root, name, options) was just called, visited=None
InitPatch ==
    /\ ManagerIdle
    /\ WrapperIdle
    /\ SchemaIdle
    /\ BridgeIdle
    /\ graph \in [Objs -> AttrLists(RootKinds)]
    /\ \A o \in Objs \ {Root} : graph[o] \in AttrLists(NestedKinds)
    /\ stack = <<Frame(Root, 0)>>
    /\ visited = {}
    /\ entered = [o \in Objs |-> 0]
    /\ fixed = {}
    /\ ppc = "running"

NextPatch ==
    \/ po_enter
    \/ po_skip
    \/ po_access_raises
    \/ po_fix
    \/ po_caught
    \/ po_prim
    \/ po_recurse
    \/ po_return

\* the interpreter keeps executing the call
SpecPatch == InitPatch /\ [][NextPatch]_vars /\ WF_vars(NextPatch)

----------------------------------------------------------------------------
(* The tool bridge: the background thread that connects to the MCP server, *)
(* the wait at import time and the wait of Web3Agent.initialize. Time is   *)
(* counted in ticks of the shorter sleep.                                  *)

DEFAULT_TIMEOUT == 30
INIT_TIMEOUT == 10
\* time.sleep(0.1) is one tick, asyncio.sleep(0.5) is five
TicksPerSecond == 10
StartSleepTicks == 1
InitSleepTicks == 5
\* how many tools the MCP server may offer
ToolCounts == {0, 1, 2}

\* create_patched_toolset returned; _mcp_tools = tools
bg_set_tools ==
    /\ bg = "connecting"
    /\ \E n \in ToolCounts : mcp_tools' = n
    /\ bg' = "set_stack"
    /\ UNCHANGED <<exit_stack, mcp_ready, spc, start_elapsed, ipc, init_elapsed,
                   agent_tools, beyondBridge>>

\* _exit_stack = exit_stack
bg_set_stack ==
    /\ bg = "set_stack"
    /\ exit_stack' = TRUE
    /\ bg' = "set_ready"
    /\ UNCHANGED <<mcp_tools, mcp_ready, spc, start_elapsed, ipc, init_elapsed,
                   agent_tools, beyondBridge>>

\* _mcp_ready = True, then the thread sleeps for ever
bg_set_ready ==
    /\ bg = "set_ready"
    /\ mcp_ready' = TRUE
    /\ bg' = "serving"
    /\ UNCHANGED <<mcp_tools, exit_stack, spc, start_elapsed, ipc, init_elapsed,
                   agent_tools, beyondBridge>>

\* create_patched_toolset raised: except Exception sets _mcp_ready = False
bg_fail ==
    /\ bg = "connecting"
    /\ mcp_ready' = FALSE
    /\ bg' = "failed"
    /\ UNCHANGED <<mcp_tools, exit_stack, spc, start_elapsed, ipc, init_elapsed,
                   agent_tools, beyondBridge>>

\* the same loop without its time limit
StartPollNoTimeout ==
    /\ spc = "poll"
    /\ IF ~mcp_ready
       THEN /\ start_elapsed' =
                  IF start_elapsed < DEFAULT_TIMEOUT * TicksPerSecond
                  THEN start_elapsed + StartSleepTicks ELSE start_elapsed
            /\ UNCHANGED spc
       ELSE /\ spc' = "done"
            /\ UNCHANGED start_elapsed
    /\ UNCHANGED <<bg, mcp_tools, exit_stack, mcp_ready, ipc, init_elapsed,
                   agent_tools, beyondBridge>>

\* while not _mcp_ready and time.time() - start_time < DEFAULT_TIMEOUT:
\*     time.sleep(0.1)
StartPoll ==
    /\ spc = "poll"
    /\ IF ~mcp_ready /\ start_elapsed < DEFAULT_TIMEOUT * TicksPerSecond
       THEN /\ start_elapsed' = start_elapsed + StartSleepTicks
            /\ UNCHANGED spc
       ELSE /\ spc' = "done"
            /\ UNCHANGED start_elapsed
    /\ UNCHANGED <<bg, mcp_tools, exit_stack, mcp_ready, ipc, init_elapsed,
                   agent_tools, beyondBridge>>

\* Web3Agent.initialize is called once the module is imported
initialize_begin ==
    /\ spc = "done"
    /\ ipc = "idle"
    /\ ipc' = "poll"
    /\ init_elapsed' = 0
    /\ UNCHANGED <<bg, mcp_tools, exit_stack, mcp_ready, spc, start_elapsed,
                   agent_tools, beyondBridge>>

\* while not _mcp_tools and time.time() - start < INIT_TIMEOUT:
\*     await asyncio.sleep(0.5)
InitializePoll ==
    /\ ipc = "poll"
    /\ IF mcp_tools = 0 /\ init_elapsed < INIT_TIMEOUT * TicksPerSecond
       THEN /\ init_elapsed' = init_elapsed + InitSleepTicks
            /\ UNCHANGED ipc
       ELSE /\ ipc' = "check"
            /\ UNCHANGED init_elapsed
    /\ UNCHANGED <<bg, mcp_tools, exit_stack, mcp_ready, spc, start_elapsed,
                   agent_tools, beyondBridge>>

\* if not _mcp_tools: raise RuntimeError(...); self._tools = _mcp_tools
InitializeCheck ==
    /\ ipc = "check"
    /\ IF mcp_tools = 0
       THEN /\ ipc' = "raised"
            /\ UNCHANGED agent_tools
       ELSE /\ ipc' = "bound"
            /\ agent_tools' = mcp_tools
    /\ UNCHANGED <<bg, mcp_tools, exit_stack, mcp_ready, spc, start_elapsed,
                   init_elapsed, beyondBridge>>

\* the module is being imported: the thread was started, the wait begins
InitBridge ==
    /\ PatchIdle
    /\ ManagerIdle
    /\ WrapperIdle
    /\ SchemaIdle
    /\ bg = "connecting"
    /\ mcp_tools = 0
    /\ exit_stack = FALSE
    /\ mcp_ready = FALSE
    /\ spc = "poll"
    /\ start_elapsed = 0
    /\ ipc = "idle"
    /\ init_elapsed = 0
    /\ agent_tools = 0

NextBridge ==
    \/ bg_set_tools
    \/ bg_set_stack
    \/ bg_set_ready
    \/ bg_fail
    \/ StartPoll
    \/ initialize_begin
    \/ InitializePoll
    \/ InitializeCheck

\* the importing thread and the event loop that runs initialize keep taking
\* their steps; nothing makes the background thread take any
SpecBridge ==
    /\ InitBridge
    /\ [][NextBridge]_vars
    /\ WF_vars(StartPoll)
    /\ WF_vars(InitializePoll)
    /\ WF_vars(InitializeCheck)

----------------------------------------------------------------------------
(* Properties *)

Finished(r) == pc[r] = "done"
Succeeded(r) == Finished(r) /\ resp[r].kind = "task"
AgentFailed(r) == loc[r].timedOut \/ loc[r].error # <<>>
Classified(r) == loc[r].task_state # "none"
InUpdate(r) ==
    pc[r] \in {"us_lookup", "us_status", "us_art", "us_init", "us_extend", "us_return"}
SoleTextPart(parts) == Len(parts) = 1 /\ parts[1].type = "text"

\* C1: a request that was validated and upserted and whose agent call
\* raised, returned None or timed out ends with a task response (nothing is
\* raised to the caller) whose task carries a new artifact with the error
\* message as its sole text part.
C1_AgentFailureYieldsTaskResponse ==
    \A r \in Reqs :
        (Finished(r) /\ invoked[r] = 1 /\ AgentFailed(r)) =>
            /\ resp[r].kind = "task"
            /\ LET list == resp[r].task.artifacts.list IN
               /\ Len(list) >= 1
               /\ SoleTextPart(list[Len(list)].parts)
               /\ Len(list[Len(list)].parts[1].text) >= 1

\* C2: a request whose agent call timed out ends with a response wrapping
\* the task in state COMPLETED, with a text artifact whose text mentions
\* the timeout duration.
C2_TimeoutYieldsCompletedTask ==
    \A r \in Reqs :
        (Finished(r) /\ loc[r].timedOut) =>
            /\ resp[r].kind = "task"
            /\ resp[r].task.status.state = "completed"
            /\ \E i \in 1..Len(resp[r].task.artifacts.list) :
                 LET parts == resp[r].task.artifacts.list[i].parts IN
                 /\ SoleTextPart(parts)
                 /\ \E k \in 1..Len(parts[1].text) :
                      parts[1].text[k] = ToString(BLOCKCHAIN_TIMEOUT)

\* C3: no step of a request whose first message part is not text changes the
\* Task Store, and such a request ends with an error response, not with a
\* raised exception.
C3_NonTextInputLeavesStore ==
    [][\A r \in Reqs :
          (pc'[r] # pc[r] /\ req'[r].part # "text"
             /\ validate_request(req'[r]).kind = "none") =>
              /\ tasks' = tasks
              /\ (pc'[r] = "done" => resp'[r].kind = "error")]_vars

\* C4: at most one task record is ever created per task id, and when the
\* first update of a task returns, the task's artifact list has length 1.
C4_FreshTaskOneRecordOneArtifact ==
    /\ [](\A t \in TaskIds : created[t] <= 1 /\ (tasks[t].present <=> created[t] = 1))
    /\ [][\A r \in Reqs :
            (pc[r] = "us_return" /\ pc'[r] = "done"
               /\ Len(updLog[req[r].task_id]) = 1) =>
                /\ resp'[r].kind = "task"
                /\ Len(resp'[r].task.artifacts.list) = 1
                /\ Len(tasks'[req[r].task_id].artifacts.list) = 1]_vars

C4_Witness ==
    \E r \in Reqs :
        /\ Succeeded(r)
        /\ ~loc[r].existed
        /\ created[req[r].task_id] = 1
        /\ Len(resp[r].task.artifacts.list) = 1

\* C5: a successful call on a task that already existed returns the task with
\* the artifacts it had before the update, in the same order, followed by
\* exactly one new artifact, and with the status produced by that call.
C5_ExistingTaskAppendsOne ==
    \A r \in Reqs :
        (Succeeded(r) /\ loc[r].existed) =>
            /\ resp[r].task.artifacts.list
                 = Append(loc[r].before, Artifact(loc[r].parts))
            /\ resp[r].task.status = TaskStatus(loc[r].task_state, loc[r].parts)

C5_Witness ==
    \E r \in Reqs :
        /\ Succeeded(r)
        /\ loc[r].existed
        /\ Len(loc[r].before) >= 1
        /\ Len(resp[r].task.artifacts.list) = Len(loc[r].before) + 1

\* each mapping with the text the agent wrapper returns for it
SerializedMappings == {<<AgentSerialize(RawObj(d)), d>> : d \in Mappings}

LogArtifacts(t) == [i \in 1..Len(updLog[t]) |-> updLog[t][i].artifact]

\* C6: two updates are never in _update_store at the same time, and whenever
\* no update is in progress every task holds the artifacts of all updates
\* that took the lock for it, in lock order, and the status of the last one.
C6_NoLostUpdates ==
    /\ \A r1, r2 \in Reqs : (r1 # r2 /\ InUpdate(r1)) => ~InUpdate(r2)
    /\ (\A r \in Reqs : ~InUpdate(r)) =>
         \A t \in TaskIds :
            /\ tasks[t].artifacts.list = LogArtifacts(t)
            /\ Len(updLog[t]) > 0 =>
                 tasks[t].status = updLog[t][Len(updLog[t])].status

C6_Witness ==
    \E r1, r2 \in Reqs :
        /\ r1 # r2
        /\ req[r1].task_id = req[r2].task_id
        /\ pc[r1] = "us_return"
        /\ pc[r2] = "us_lock"
        /\ Len(tasks[req[r1].task_id].artifacts.list) >= 2

ReceiptRejected ==
    /\ calls' # calls
    /\ \A r \in Reqs : pc'[r] = "upsert" => pc[r] = "upsert"

\* C7: a request with incompatible output modes is finished at once with the
\* incompatible-types error response, without an agent call, and the step
\* that rejects it changes neither the tasks nor the record of updates.
C7_IncompatibleModesRejected ==
    /\ [](\A r \in Reqs :
            (pc[r] # "idle"
               /\ ~are_modalities_compatible(req[r].modes, SUPPORTED_CONTENT_TYPES)) =>
                /\ Finished(r)
                /\ resp[r] = ErrorResponse("IncompatibleTypesError")
                /\ invoked[r] = 0)
    /\ [][ReceiptRejected => UNCHANGED <<tasks, created, updLog, lock>>]_vars

C7_Witness ==
    \E r \in Reqs :
        /\ Finished(r)
        /\ resp[r].kind = "error"
        /\ ~tasks[req[r].task_id].present

\* the sentinel occurs in a text, or in a key or a string of a mapping
SentinelIn(s) == \E i \in 1..(Len(s) - 1) : s[i] = "M" /\ s[i + 1] = ":"
HasSentinel(result) ==
    IF result.py = "str" THEN SentinelIn(result.s)
    ELSE \E i \in 1..Len(result.v.keys) :
            \/ SentinelIn(result.v.keys[i])
            \/ result.v.kids[i].t = "str" /\ SentinelIn(result.v.kids[i].s)

\* C8: the state written for an agent response is INPUT_REQUIRED exactly when
\* the response contains "MISSING_INFO:", else COMPLETED; "Balance: 1.5 ETH"
\* gives COMPLETED with that text as the only part.
C8_SentinelRule ==
    \A r \in Reqs :
        Succeeded(r) =>
            /\ resp[r].task.status.state
                 = (IF HasSentinel(loc[r].result) THEN "input-required"
                    ELSE "completed")
            /\ loc[r].result = RawStr(BalanceText) =>
                 /\ resp[r].task.status = TaskStatus("completed", <<TextPart(BalanceText)>>)
                 /\ resp[r].task.artifacts.list = <<Artifact(<<TextPart(BalanceText)>>)>>

C8_Witness ==
    \E r \in Reqs :
        /\ Succeeded(r)
        /\ resp[r].task.status.state = "input-required"
        /\ resp[r].task.status.parts[1].type = "data"
        /\ ~IsPrefixAt(py_str(loc[r].result), 1, Sentinel)

\* C9: a mapping of JSON primitives, given as a dict or as the text the agent
\* wrapper makes of it, is classified as one data part holding that mapping;
\* a string that begins with neither '{' nor '[' is classified as one text
\* part holding that string.
C9_ClassificationLaw ==
    \A r \in Reqs :
        Classified(r) =>
            /\ (loc[r].result.py = "obj" /\ loc[r].result.v \in Mappings) =>
                 loc[r].parts = <<DataPart(loc[r].result.v)>>
            /\ (loc[r].result.py = "str" /\ StartsWith(loc[r].result.s, "{")) =>
                 \A p \in SerializedMappings :
                    loc[r].result = p[1] => loc[r].parts = <<DataPart(p[2])>>
            /\ (loc[r].result.py = "str"
                  /\ ~StartsWith(loc[r].result.s, "{")
                  /\ ~StartsWith(loc[r].result.s, "[")) =>
                 loc[r].parts = <<TextPart(loc[r].result.s)>>

C9_Witness ==
    \E r \in Reqs :
        /\ Succeeded(r)
        /\ loc[r].result.py = "str"
        /\ loc[r].parts[1].type = "data"
        /\ Len(loc[r].parts[1].data.keys) >= 2
        /\ \E i \in 1..Len(loc[r].parts[1].data.kids) :
              loc[r].parts[1].data.kids[i] = JStr(<<"\"">>)

\* C10: a string result that begins with '{' or '[' and is not valid JSON is
\* classified as a single text part carrying the string, never a data part.
C10_FailedParseYieldsText ==
    \A r \in Reqs :
        (Classified(r) /\ loc[r].result.py = "str"
           /\ (StartsWith(loc[r].result.s, "{") \/ StartsWith(loc[r].result.s, "["))
           /\ ~json_loads(loc[r].result.s).ok) =>
            loc[r].parts = <<TextPart(loc[r].result.s)>>
----------------------------------------------------------------------------
----------------------------------------------------------------------------
\* C16: a streaming request is validated and upserted like a one-shot one;
\* the streaming operation that follows always fails with the
\* not-implemented signal, and the request never invokes the agent, never
\* replaces a status and never appends an artifact.
C16_StreamingNotImplemented ==
    /\ [](\A r \in Reqs :
            req[r].streaming =>
                /\ pc[r] \in {"upsert", "stream", "done"}
                /\ invoked[r] = 0
                /\ pc[r] = "stream" => tasks[req[r].task_id].present
                /\ Finished(r) =>
                      IF are_modalities_compatible(req[r].modes, SUPPORTED_CONTENT_TYPES)
                      THEN /\ resp[r] = Raised(NotImplementedMsg)
                           /\ tasks[req[r].task_id].present
                      ELSE resp[r] = ErrorResponse("IncompatibleTypesError"))
    /\ [][\A r \in Reqs :
            (req'[r].streaming /\ pc'[r] # pc[r]) =>
                \A t \in TaskIds :
                    /\ updLog'[t] = updLog[t]
                    /\ tasks[t].present => tasks'[t] = tasks[t]
                    /\ (~tasks[t].present /\ tasks'[t].present) =>
                          /\ pc[r] = "upsert"
                          /\ t = req[r].task_id
                          /\ tasks'[t].status.state = "submitted"
                          /\ tasks'[t].artifacts.isNone]_vars

\* a streaming request on a task that already holds an artifact has failed
\* with the not-implemented signal
C16_Witness ==
    \E r \in Reqs :
        /\ req[r].streaming
        /\ Finished(r)
        /\ resp[r] = Raised(NotImplementedMsg)
        /\ Len(tasks[req[r].task_id].artifacts.list) = 1

----------------------------------------------------------------------------
\* C17: when the task id is not in the store at update time, _update_store
\* raises task-not-found and leaves the store as it was (no record created,
\* lock released), and the request ends with an exception, not with a
\* response.
C17_MissingTaskRaises ==
    /\ [](\A r \in Reqs :
            (Finished(r) /\ loc[r].error = TaskNotFoundMsg(req[r].task_id)) =>
                /\ resp[r] = Raised(ErrorPrefix \o TaskNotFoundMsg(req[r].task_id))
                /\ ~tasks[req[r].task_id].present
                /\ lock = 0)
    /\ [][\A r \in Reqs :
            (pc[r] \in {"us_lookup", "on_error"} /\ ~tasks[req[r].task_id].present) =>
                /\ tasks' = tasks
                /\ created' = created
                /\ pc'[r] \in {pc[r], "on_error", "done"}
                /\ pc'[r] # pc[r] => lock' = 0]_vars

\* the request for the missing t2 ended in the exception while t1 kept its
\* artifact
C17_Witness ==
    /\ Finished(1)
    /\ req[1].task_id = "t2"
    /\ resp[1] = Raised(<<"Error invoking agent: ", "Task ", "t2", " not found">>)
    /\ ~tasks["t2"].present
    /\ Len(tasks["t1"].artifacts.list) = 1
    /\ lock = 0

----------------------------------------------------------------------------
\* C18: neither wait for the tool bridge goes on for ever. The wait at import
\* time ends once the ready flag is set or DEFAULT_TIMEOUT has passed; the
\* wait of initialize ends once tools are there or INIT_TIMEOUT has passed,
\* with the agent bound to the tools or with RuntimeError; both hold when the
\* background thread never gets ready.
C18_BridgeWaitsAreBounded ==
    /\ <>(spc = "done")
    /\ [](ipc = "poll" => <>(ipc \in {"bound", "raised"}))
    /\ [](start_elapsed <= DEFAULT_TIMEOUT * TicksPerSecond)
    /\ [](init_elapsed < INIT_TIMEOUT * TicksPerSecond + InitSleepTicks)
    /\ [](ipc = "bound" => agent_tools > 0)

\* the background thread is still connecting, the import-time wait is over
\* and initialize has given up
C18_Witness ==
    /\ bg = "connecting"
    /\ ~mcp_ready
    /\ spc = "done"
    /\ start_elapsed = DEFAULT_TIMEOUT * TicksPerSecond
    /\ ipc = "raised"
    /\ init_elapsed = INIT_TIMEOUT * TicksPerSecond

----------------------------------------------------------------------------
\* C19: nothing is retried. On every path a request calls agent.invoke at
\* most once and adds at most one artifact to its task; a request that got
\* as far as the agent called it exactly once.
C19_NoRetry ==
    \A r \in Reqs :
        /\ invoked[r] <= 1
        /\ loc[r].appended <= 1
        /\ (pc[r] \in {"wait", "on_timeout", "on_error"}
              \/ loc[r].timedOut \/ loc[r].error # <<>> \/ Succeeded(r)) =>
              invoked[r] = 1

\* one request ended after a timeout, the other with its one artifact
C19_Witness ==
    \E r, q \in Reqs :
        /\ Finished(r) /\ loc[r].timedOut /\ invoked[r] = 1
        /\ Succeeded(q) /\ loc[q].appended = 1 /\ invoked[q] = 1

----------------------------------------------------------------------------
\* the value of the agent call of a timed-out request is never classified,
\* never written as a status and never appended
TimeoutDiscards(r) ==
    /\ loc[r].result = RawNone
    /\ loc[r].parts = <<>>
    /\ loc[r].task_state = "none"
    /\ pc[r] # "us_lock"
    /\ ~InUpdate(r)

\* the task of a timed-out request holds the explanatory text part as its
\* status and as its newest artifact
TimeoutRetained(r) ==
    LET task == tasks[req[r].task_id] IN
    /\ resp[r].kind = "task"
    /\ Len(task.artifacts.list) = Len(loc[r].before) + 1
    /\ \E i \in 1..Len(task.artifacts.list) :
          task.artifacts.list[i] = Artifact(<<TextPart(TimeoutMsg)>>)

\* C20: when a request times out, the value of the agent call is discarded
\* (never classified, never written as a status, never appended, then or
\* later), and the one thing kept for the request is the explanatory text
\* part.
C20_TimeoutKeepsOnlyExplanation ==
    \A r \in Reqs :
        loc[r].timedOut =>
            /\ TimeoutDiscards(r)
            /\ Finished(r) => TimeoutRetained(r)

----------------------------------------------------------------------------
(* Properties of the Task Manager under concurrent requests *)

Blocked(r) == pc[r] = "wait"

\* C21: there is no global request serialization. The store lock is held
\* only inside _update_store, never by a request that is about to wait or
\* waits for the agent; and while request 1 stays blocked in the agent
\* invocation, every request that request 2 starts runs to its end
\* (validated, upserted, invoked, store update completed).
C21_NoGlobalSerialization ==
    /\ [](pc[1] \in {"invoke", "wait"} /\ lock # 1)
    /\ [](\A r \in Reqs : lock = r => InUpdate(r))
    /\ (Blocked(1) /\ pc[2] \notin {"idle", "done"}) ~> (Blocked(1) /\ Finished(2))

\* request 1 is still blocked after request 2 completed one update of the
\* same task and one of a different task
C21_Witness ==
    /\ Blocked(1)
    /\ Succeeded(2)
    /\ invoked[2] = 1
    /\ Len(updLog["t1"]) = 1
    /\ Len(updLog["t2"]) = 1
    /\ Len(tasks["t1"].artifacts.list) = 1
    /\ Len(tasks["t2"].artifacts.list) = 1

IsPrefixOf(s, t) == Len(s) <= Len(t) /\ SubSeq(t, 1, Len(s)) = s

\* C22: append-only. Every step of every interleaving of on_send_task and
\* on_send_task_subscribe calls (successful, rejected, timed out or failed)
\* keeps the artifact list of every task as a prefix of its list in the next
\* state: no artifact is removed, replaced or reordered.
C22_AppendOnly ==
    [][\A t \in TaskIds :
          IsPrefixOf(tasks[t].artifacts.list, tasks'[t].artifacts.list)]_vars

\* a task that received two different artifacts and, in between or after,
\* a request that timed out
C22_Witness ==
    \E t \in TaskIds, r \in Reqs :
        /\ Len(tasks[t].artifacts.list) = 2
        /\ tasks[t].artifacts.list[1] # tasks[t].artifacts.list[2]
        /\ Finished(r) /\ loc[r].timedOut /\ req[r].task_id = t

\* the pipeline wrote task t's status in this step (the record existed
\* before, so this is not the upsert creating it)
StatusWritten(t) == tasks[t].present /\ tasks'[t].status # tasks[t].status

\* C23: every status the pipeline writes to a task carries a message with at
\* least one part; a task whose status is no longer the upsert's SUBMITTED
\* never has a status without parts, and every update that took the lock
\* carries a status with a part.
C23_WrittenStatusHasParts ==
    /\ [][\A t \in TaskIds :
            StatusWritten(t) => Len(tasks'[t].status.parts) >= 1]_vars
    /\ [](\A t \in TaskIds :
            /\ tasks[t].status.state \notin {"none", "submitted"} =>
                   Len(tasks[t].status.parts) >= 1
            /\ \A i \in 1..Len(updLog[t]) :
                   Len(updLog[t][i].status.parts) >= 1)

C23_Witness ==
    \E t \in TaskIds :
        /\ tasks[t].status.state = "input-required"
        /\ Len(tasks[t].status.parts) = 1
        /\ Len(updLog[t]) = 1

\* exactly one part, a text part or a data part
OnePart(artifact) ==
    /\ Len(artifact.parts) = 1
    /\ \/ artifact.parts[1].type = "text" /\ artifact.parts[1].data = JNull
       \/ artifact.parts[1].type = "data" /\ artifact.parts[1].text = <<>>

\* C24: status/artifact consistency. Every artifact in every task's list
\* holds exactly one part (text or data); and in every state in which no
\* _update_store is between taking and releasing the lock, a task with a
\* non-empty artifact list has a status whose parts are the parts of its
\* last artifact.
C24_StatusMatchesLastArtifact ==
    \A t \in TaskIds :
        LET list == tasks[t].artifacts.list IN
        /\ \A i \in 1..Len(list) : OnePart(list[i])
        /\ (lock = 0 /\ Len(list) > 0) =>
               tasks[t].status.parts = list[Len(list)].parts

\* two requests updated the same task, the later one with a data part
C24_Witness ==
    \E t \in TaskIds :
        LET list == tasks[t].artifacts.list IN
        /\ lock = 0
        /\ Len(list) = 2
        /\ list[1].parts[1].type = "text"
        /\ list[2].parts[1].type = "data"
        /\ tasks[t].status.parts = list[2].parts
        /\ \A r \in Reqs : Finished(r)

\* request r took a step of one of its two exception handlers
FailureStep(r) == pc[r] \in {"on_timeout", "on_error"} /\ pc'[r] # pc[r]

\* C25: the only states the pipeline writes are INPUT_REQUIRED and
\* COMPLETED; the status a failure handler (timeout, exception, None
\* result) hands over or writes is COMPLETED, never FAILED and never
\* INPUT_REQUIRED, also for an error text that contains the sentinel.
C25_OnlyTwoStatesWritten ==
    /\ [][\A t \in TaskIds :
            StatusWritten(t) =>
                tasks'[t].status.state \in {"input-required", "completed"}]_vars
    /\ [][\A r \in Reqs, t \in TaskIds :
            (FailureStep(r) /\ StatusWritten(t)) =>
                tasks'[t].status.state = "completed"]_vars
    /\ [](\A t \in TaskIds :
            tasks[t].status.state \in {"none", "submitted", "input-required",
                                       "completed"})
    /\ [](\A r \in Reqs :
            /\ pc[r] = "on_timeout" => ErrorStatus(TimeoutMsg).state = "completed"
            /\ pc[r] = "on_error" =>
                  /\ ErrorStatus(ErrorPrefix \o loc[r].error).state = "completed"
                  /\ ErrorStatus(ErrorPrefix \o Sentinel).state = "completed"
                  /\ TaskStateOf(RawStr(ErrorPrefix \o Sentinel)) = "input-required")

\* one task COMPLETED, one INPUT_REQUIRED, and a request that failed
C25_Witness ==
    \E t, u \in TaskIds, r \in Reqs :
        /\ tasks[t].status.state = "completed"
        /\ tasks[u].status.state = "input-required"
        /\ Finished(r) /\ AgentFailed(r) /\ resp[r].kind = "raised"

----------------------------------------------------------------------------
(* Properties of the tool bridge *)

\* the readiness flag is set and initialize's wait has not expired
ReadyInTime ==
    /\ mcp_ready
    /\ ipc \in {"idle", "poll"}
    /\ init_elapsed < INIT_TIMEOUT * TicksPerSecond

\* C28: if the background thread sets the readiness flag before INIT_TIMEOUT
\* expires, initialize does not raise, completes, and binds the agent to
\* exactly the tool list the bridge published; and whenever the readiness
\* flag is true, the tool list and the exit stack have been assigned.
C28_ReadyBridgeBindsTools ==
    /\ [](mcp_ready => (bg = "serving" /\ exit_stack))
    /\ [](ReadyInTime => [](ipc # "raised"))
    /\ []((ReadyInTime /\ ipc = "poll") =>
            <>(ipc = "bound" /\ agent_tools = mcp_tools))

----------------------------------------------------------------------------
(* Properties of Web3Agent.invoke *)

HasResponse(e) ==
    \E j \in 1..Len(e.parts) : e.parts[j].function_response.set
ResponseEvents == {i \in 1..Len(events) : HasResponse(events[i])}
RaisingEvents == {i \in 1..Len(events) : events[i].raises # "none"}
FirstOf(S) == CHOOSE i \in S : \A j \in S : i <= j
\* the payload of the earliest tool response of event e
FirstPayload(e) ==
    LET R == {j \in 1..Len(e.parts) : e.parts[j].function_response.set}
    IN  e.parts[FirstOf(R)].function_response.response
\* the stream reaches a tool response before it raises, if it raises at all
ReachesResponse ==
    /\ ResponseEvents # {}
    /\ \A i \in RaisingEvents : FirstOf(ResponseEvents) < i

\* C12: when the stream holds a tool response, invoke returns the serialized
\* payload of the first one in arrival order, whatever text came before it,
\* and takes no event after the one that carried it.
C12_ToolResponsePriority ==
    ReachesResponse =>
        /\ consumed <= FirstOf(ResponseEvents)
        /\ wpc = "returned" =>
              /\ consumed = FirstOf(ResponseEvents)
              /\ ret = AgentSerialize(FirstPayload(events[FirstOf(ResponseEvents)]))

\* a text event, then the event with the first tool response, then more
C12_Witness ==
    /\ wpc = "returned"
    /\ Len(events) = 3
    /\ events[1] = Event(<<TextOnlyPart(TextB)>>)
    /\ events[2] = Event(<<TextOnlyPart(TextA), ResponsePart(PayloadX)>>)
    /\ events[3] = Event(<<ResponsePart(PayloadY)>>)
    /\ ret = RawStr(json_dumps(PayloadX.v))
    /\ consumed = 2

\* the non-empty texts of the parts of events i.. in arrival order
RECURSIVE TextsFrom(_, _)
TextsFrom(evs, i) ==
    IF i > Len(evs) THEN <<>>
    ELSE LET ps == evs[i].parts
             ts == [j \in 1..Len(ps) |-> ps[j].text]
         IN  SelectSeq(ts, LAMBDA t : t # <<>>) \o TextsFrom(evs, i + 1)

\* C13: when the stream ends with no tool response in it, invoke returns the
\* last non-empty text part, or "No usable response received" when there was
\* none; tool-call parts make no difference to the value.
C13_TextFallback ==
    (wpc = "returned" /\ ResponseEvents = {} /\ RaisingEvents = {}) =>
        LET texts == TextsFrom(events, 1) IN
        /\ consumed = Len(events)
        /\ ret = IF texts = <<>> THEN RawStr(NoUsableResponse)
                 ELSE RawStr(texts[Len(texts)])

\* a text, then a tool call after it, then an empty text
C13_Witness ==
    /\ wpc = "returned"
    /\ events = <<Event(<<TextOnlyPart(TextA)>>), Event(<<CallPart>>),
                  Event(<<TextOnlyPart(<<>>)>>)>>
    /\ ret = RawStr(TextA)

\* a stream with nothing usable in it ends in the fixed message
C13_WitnessNoText ==
    /\ wpc = "returned"
    /\ events = <<Event(<<CallPart>>), Event(<<>>)>>
    /\ ret = RawStr(NoUsableResponse)

\* the stream raises before it yields a tool response
RaisesFirst ==
    /\ RaisingEvents # {}
    /\ \A i \in ResponseEvents : FirstOf(RaisingEvents) < i
FirstRaise == events[FirstOf(RaisingEvents)]

\* the Task Manager takes value `result` of agent.invoke on its normal path:
\* one text part holding it, and the state the sentinel rule gives
NormalPathText(result, state) ==
    /\ result.py = "str"
    /\ ~ClassifyRaises(result)
    /\ Classify(result) = <<TextPart(result.s)>>
    /\ TaskStateOf(result) = state

\* C26 as stated: whenever the stream raises, invoke returns
\* "Error: <message>".
C26_EveryExceptionGivesErrorString ==
    (wpc = "returned" /\ RaisesFirst) => ret = RawStr(ErrorStr(FirstRaise.msg))

\* C26, amended: an exception raised while the event stream is consumed
\* never leaves invoke. invoke returns the string "Query timed out" when the
\* exception is asyncio.TimeoutError and "Error: <message>" for every other
\* exception; the Task Manager takes either on its normal path, as a text
\* part with state INPUT_REQUIRED if the string contains the sentinel and
\* COMPLETED otherwise.
C26_StreamExceptionsBecomeStrings ==
    /\ wpc # "raised"
    /\ (wpc = "returned" /\ RaisesFirst) =>
          /\ ret = IF FirstRaise.raises = "TimeoutError"
                   THEN RawStr(QueryTimedOut)
                   ELSE RawStr(ErrorStr(FirstRaise.msg))
          /\ NormalPathText(ret, IF /\ FirstRaise.raises # "TimeoutError"
                                    /\ Contains(FirstRaise.msg, Sentinel)
                                 THEN "input-required" ELSE "completed")

\* a text event, then an exception whose message holds the sentinel
C26_Witness ==
    /\ wpc = "returned"
    /\ Len(events) = 2
    /\ events[1] = Event(<<TextOnlyPart(TextA)>>)
    /\ events[2] = RaisingWith("Exception", Sentinel)
    /\ ret = RawStr(ErrorStr(Sentinel))
    /\ TaskStateOf(ret) = "input-required"

\* C27: sessions are created lazily and reused. Over any sequence of invoke
\* calls, a create_session call is made for an id only by the invoke that is
\* the first to use that id; every later invoke with that id leaves the
\* service as it is; so the service holds exactly the ids that were used,
\* each created once, and nothing for an id that was never used.
C27_SessionsLazyAndReused ==
    /\ [](\A id \in AllSessionIds :
            /\ session_created[id] = IF session_used[id] >= 1 THEN 1 ELSE 0
            /\ id \in sessions <=> session_used[id] >= 1)
    /\ [][\A id \in AllSessionIds :
            /\ session_created'[id] # session_created[id] =>
                  /\ wpc = "session" /\ session_id = id
                  /\ session_used[id] = 0
                  /\ id \notin sessions /\ id \in sessions'
            /\ (session_used'[id] # session_used[id] /\ session_used[id] >= 1) =>
                  UNCHANGED <<sessions, session_created>>]_vars

\* three invokes: two with one id, sharing one session, none with the third
C27_Witness ==
    /\ wpc = "returned"
    /\ session_used["s1"] = 2 /\ session_created["s1"] = 1
    /\ session_used["s2"] = 1 /\ session_created["s2"] = 1
    /\ session_used[InitSession] = 0 /\ InitSession \notin sessions
    /\ sessions = {"s1", "s2"}

Commands(log) == [i \in 1..Len(log) |-> log[i].command]

\* C30: run_initialization_commands on an initialized agent hands the
\* INIT_COMMANDS to invoke in list order, each once: the commands invoked so
\* far are always an initial piece of the list, a timeout or an exception of
\* a command is followed by the next command, the run always ends, with all
\* commands invoked and the completed flag set, and once the flag is set no
\* call invokes anything.
C30_InitCommandsOnceInOrder ==
    /\ [](rpc # "raised")
    /\ [](IsPrefixOf(Commands(cmd_log), INIT_COMMANDS))
    /\ [](rpc \in {"loop", "waiting"} =>
            Len(cmd_log) = cmd_index + (IF rpc = "waiting" THEN 1 ELSE 0))
    /\ [](init_completed <=> rpc = "done")
    /\ [](rpc = "done" => Commands(cmd_log) = INIT_COMMANDS)
    /\ [][init_completed => (cmd_log' = cmd_log /\ invokes' = invokes)]_vars
    /\ (rpc = "create") ~> (rpc = "done" /\ init_completed)

\* the first command timed out, the second raised, the third returned, and
\* a second call found the flag set
C30_Witness ==
    /\ rpc = "done"
    /\ init_completed
    /\ init_calls = 2
    /\ invokes = 3
    /\ Len(cmd_log) = 3
    /\ cmd_log[1].outcome = "timeout"
    /\ cmd_log[2].outcome = "raised"
    /\ cmd_log[3].outcome = "returned"

----------------------------------------------------------------------------
(* Properties of the schema normalizer *)

\* C14: normalizing an already normalized schema changes nothing, for every
\* schema tree, every fallback type and aggressive mode on or off.
C14_NormalizerIdempotent ==
    runs >= 2 => schema = once

\* obj and every schema dict below it
RECURSIVE Dicts(_)
Dicts(obj) ==
    {obj}
    \cup UNION {Dicts(obj.items[i]) : i \in 1..Len(obj.items)}
    \cup UNION {Dicts(obj.properties[i]) : i \in 1..Len(obj.properties)}
    \cup UNION {Dicts(obj.anyOf[i]) : i \in 1..Len(obj.anyOf)}

TypeIsNoList(obj) == ~obj.type.list
ArrayHasItems(obj) == obj.type = TypeName("array") => obj.items # <<>>

\* after is before with its list types replaced and items added where an
\* array had none: items that were declared keep their place
RECURSIVE KeepsDeclaredItems(_, _)
KeepsDeclaredItems(before, after) ==
    /\ before.type.list => after.type = TypeName(options.convert_type_arrays_to)
    /\ ~before.type.list => after.type = before.type
    /\ before.items # <<>> =>
          /\ Len(after.items) = 1
          /\ KeepsDeclaredItems(before.items[1], after.items[1])
    /\ Len(after.properties) = Len(before.properties)
    /\ \A i \in 1..Len(before.properties) :
          KeepsDeclaredItems(before.properties[i], after.properties[i])
    /\ Len(after.anyOf) = Len(before.anyOf)
    /\ \A i \in 1..Len(before.anyOf) :
          KeepsDeclaredItems(before.anyOf[i], after.anyOf[i])

\* C15: after one run, aggressive or not, no schema dict has a list as its
\* type (the fallback type took its place), every dict of type "array" has
\* items, and items that were declared are still the ones declared.
C15_NoListTypeArraysHaveItems ==
    runs >= 1 =>
        /\ \A obj \in Dicts(schema) : TypeIsNoList(obj) /\ ArrayHasItems(obj)
        /\ KeepsDeclaredItems(given, once)

\* the enum list `after` is the list `before` with every member in its
\* string form, in the same places
Stringified(before, after) ==
    /\ after.there = before.there
    /\ Len(after.vals) = Len(before.vals)
    /\ \A i \in 1..Len(before.vals) :
          /\ after.vals[i].str
          /\ after.vals[i].s = before.vals[i].s
          /\ after.vals[i].obj = before.vals[i].obj
          /\ before.vals[i].str => after.vals[i] = before.vals[i]

\* every enum list of `before` is found at its place in `after`, coerced in
\* aggressive mode and as it was otherwise
RECURSIVE EnumsNormalized(_, _)
EnumsNormalized(before, after) ==
    /\ IF options.aggressive
       THEN Stringified(before.enum, after.enum)
       ELSE after.enum = before.enum
    /\ before.items # <<>> =>
          /\ Len(after.items) = 1
          /\ EnumsNormalized(before.items[1], after.items[1])
    /\ Len(after.properties) = Len(before.properties)
    /\ \A i \in 1..Len(before.properties) :
          EnumsNormalized(before.properties[i], after.properties[i])
    /\ Len(after.anyOf) = Len(before.anyOf)
    /\ \A i \in 1..Len(before.anyOf) :
          EnumsNormalized(before.anyOf[i], after.anyOf[i])

\* C29: after normalization in aggressive mode every member of every enum
\* list of the tree is a string: the members that were no strings are
\* replaced by their string form, the strings are unchanged, order and
\* length are kept. In non-aggressive mode every enum list is as it was.
C29_EnumMembersBecomeStrings ==
    runs >= 1 =>
        /\ EnumsNormalized(given, once)
        /\ EnumsNormalized(given, schema)
        /\ options.aggressive =>
              \A obj \in Dicts(schema) :
                  \A i \in 1..Len(obj.enum.vals) : obj.enum.vals[i].str

----------------------------------------------------------------------------
(* Properties of patch_object_attributes *)

\* the objects an object's attributes refer to
Refs(o) == {graph[o][i].to : i \in {j \in 1..Len(graph[o]) : graph[o][j].kind = "ref"}}

RECURSIVE ReachIn(_, _)
ReachIn(S, n) ==
    IF n = 0 THEN S ELSE ReachIn(S \cup UNION {Refs(o) : o \in S}, n - 1)
\* the objects reached from Root along attributes that are objects
Reachable == ReachIn({Root}, Cardinality(Objs))

Ended == ppc # "running"

\* C31: patch_object_attributes terminates on every finite object graph,
\* cycles included; each object is entered at most once per top-level call;
\* and an attribute whose access or fixing raises is skipped without
\* aborting the traversal: no exception leaves the call, and when it is over
\* every object reachable from the root was entered and every dict or list
\* attribute of those objects was fixed.
C31_PatchTerminatesAndSkipsErrors ==
    /\ <>Ended
    /\ [](\A o \in Objs : entered[o] <= 1)
    /\ [](ppc # "raised")
    /\ [](Ended =>
            \A o \in Reachable :
                /\ o \in visited
                /\ \A i \in 1..Len(graph[o]) :
                       graph[o][i].kind = "dict" => <<o, i>> \in fixed)

====
